---------------------------- MODULE Spec2Model ----------------------------
(***************************************************************************)
(* A model of the sigil rendering pipeline:                                *)
(*   sigil-core/src/lib.rs     Sigil, Layer, Item, Sigil::resolve,         *)
(*                             replace_vars                                *)
(*   sigil-render/src/lib.rs   Renderer, Renderer::render_raw, parse_color *)
(*                                                                         *)
(* Conventions.                                                            *)
(*  - A Rust String is a sequence of one-character strings.                *)
(*  - An f32 is an integer number of halves (3 stands for 1.5), so that    *)
(*    fractional sizes, `as u32` truncation and the Display form of a      *)
(*    fraction are all present; PosInf stands for +infinity.               *)
(*  - A pixel is <<r, g, b, a>>, premultiplied RGBA8.                      *)
(*  - A resource blob is a record saying what its bytes decode to.         *)
(***************************************************************************)
EXTENDS Integers, Sequences, FiniteSets, TLC

(***************************************************************************)
(* Bounds of the model.                                                    *)
(***************************************************************************)
\* largest canvas width (pixels) a scene of the model has
MaxW == 2
\* largest number of layers a scene of the model has
MaxLayers == 2

(***************************************************************************)
(* Strings.                                                                *)
(***************************************************************************)
EndsWith(s, suf) ==
    /\ Len(s) >= Len(suf)
    /\ SubSeq(s, Len(s) - Len(suf) + 1, Len(s)) = suf

StartsWithAt(s, i, pat) ==
    /\ i + Len(pat) - 1 <= Len(s)
    /\ SubSeq(s, i, i + Len(pat) - 1) = pat

RECURSIVE Dec(_)
\* decimal digits of a natural number (Display of an unsigned integer)
Dec(n) ==
    LET d == n % 10
        c == <<"0","1","2","3","4","5","6","7","8","9">>[d + 1]
    IN  IF n < 10 THEN <<c>> ELSE Dec(n \div 10) \o <<c>>

(***************************************************************************)
(* f32 values, in halves.                                                  *)
(***************************************************************************)
PosInf == 2 ^ 20

F(n) == 2 * n

IsFinite(v) == v > -PosInf /\ v < PosInf

\* `v as u32`: truncation toward zero, saturating at 0 for negatives
AsU32(v) == IF v <= 0 THEN 0 ELSE v \div 2

\* Display of an f32: "2", "2.5", "-0.5", "inf"
FmtF32(v) ==
    IF v >= PosInf THEN <<"i","n","f">>
    ELSE IF v <= -PosInf THEN <<"-","i","n","f">>
    ELSE LET m == IF v < 0 THEN -v ELSE v
             body == Dec(m \div 2) \o (IF m % 2 = 1 THEN <<".","5">> ELSE <<>>)
         IN  IF v < 0 THEN <<"-">> \o body ELSE body

(***************************************************************************)
(* parse_color                                                             *)
(***************************************************************************)
NoColor == <<-1, -1, -1, -1>>

HexVal(c) ==
    CASE c = "0" -> 0  [] c = "1" -> 1  [] c = "2" -> 2  [] c = "3" -> 3
      [] c = "4" -> 4  [] c = "5" -> 5  [] c = "6" -> 6  [] c = "7" -> 7
      [] c = "8" -> 8  [] c = "9" -> 9
      [] c \in {"a", "A"} -> 10 [] c \in {"b", "B"} -> 11
      [] c \in {"c", "C"} -> 12 [] c \in {"d", "D"} -> 13
      [] c \in {"e", "E"} -> 14 [] c \in {"f", "F"} -> 15
      [] OTHER -> -1

\* A character of a String is a one-character TLA+ string; EAcute stands
\* for U+00E9, which UTF-8 encodes in two bytes, every other character of
\* the model is ASCII and takes one byte.
EAcute == "U+00E9"

Utf8Len(c) == IF c = EAcute THEN 2 ELSE 1

\* the byte index at which character k of s starts (k = Len(s) + 1: s.len())
RECURSIVE ByteOffset(_, _)
ByteOffset(s, k) ==
    IF k <= 1 THEN 0 ELSE ByteOffset(s, k - 1) + Utf8Len(s[k - 1])

\* str::len(): the length in bytes
ByteLen(s) ==
    IF \A k \in 1..Len(s) : s[k] # EAcute THEN Len(s)
    ELSE ByteOffset(s, Len(s) + 1)

\* str::is_char_boundary(i)
IsCharBoundary(s, i) == \E k \in 1..(Len(s) + 1) : ByteOffset(s, k) = i

\* the value of &s[i..j] when i or j is not a character boundary: a panic
SlicePanic == <<"panic">>

\* &s[i..j], i and j byte indices
ByteSlice(s, i, j) ==
    IF ~IsCharBoundary(s, i) \/ ~IsCharBoundary(s, j) THEN SlicePanic
    ELSE LET ks == {k \in 1..Len(s) : ByteOffset(s, k) >= i
                                      /\ ByteOffset(s, k) < j}
         IN  [n \in 1..Cardinality(ks) |->
                 s[CHOOSE k \in ks : Cardinality({m \in ks : m < k}) = n - 1]]

\* u8::from_str_radix(s, 16) of a slice of two bytes; -1 is Err.
\* A leading '+' is accepted as a sign; '-' is not (unsigned type).
FromStrRadix16(s) ==
    IF Len(s) = 1 THEN (IF s[1] = "+" THEN -1 ELSE HexVal(s[1]))
    ELSE IF s[1] = "+"
    THEN HexVal(s[2])
    ELSE IF HexVal(s[1]) < 0 \/ HexVal(s[2]) < 0 THEN -1
         ELSE 16 * HexVal(s[1]) + HexVal(s[2])

\* the outcome of a call of parse_color that panicked
Panicked == <<-2, -2, -2, -2>>

\* parse_color(hex): Some(colour), None (NoColor) or a panic; the slices
\* are taken and parsed one after the other, `?` returning at the first Err.
\* Seven bytes in seven characters are one-byte characters: every index is
\* a boundary and byte i is character i + 1.
parse_color(hex) ==
    IF Len(hex) = 0 \/ hex[1] # "#" \/ ByteLen(hex) # 7 THEN NoColor
    ELSE LET ascii == Len(hex) = 7
             rs == IF ascii THEN SubSeq(hex, 2, 3) ELSE ByteSlice(hex, 1, 3)
             gs == IF ascii THEN SubSeq(hex, 4, 5) ELSE ByteSlice(hex, 3, 5)
             bs == IF ascii THEN SubSeq(hex, 6, 7) ELSE ByteSlice(hex, 5, 7)
         IN  IF rs = SlicePanic THEN Panicked
             ELSE IF FromStrRadix16(rs) < 0 THEN NoColor
             ELSE IF gs = SlicePanic THEN Panicked
             ELSE IF FromStrRadix16(gs) < 0 THEN NoColor
             ELSE IF bs = SlicePanic THEN Panicked
             ELSE IF FromStrRadix16(bs) < 0 THEN NoColor
             ELSE <<FromStrRadix16(rs), FromStrRadix16(gs),
                    FromStrRadix16(bs), 255>>

\* parse_color(hex) is Some(_)
IsColor(hex) == parse_color(hex) \notin {NoColor, Panicked}


(***************************************************************************)
(* Pixels and pixmaps (tiny_skia::Pixmap, premultiplied RGBA8).            *)
(***************************************************************************)
Transparent == <<0, 0, 0, 0>>

Opaque(c) == <<c[1], c[2], c[3], 255>>

\* Premultiply, had the channels been stored as decoded
Premultiply_Straight(px) == <<px[1], px[2], px[3], px[4]>>

\* (r as f32 * (a as f32 / 255.0)) as u8, for each of r, g, b; a is kept
Premultiply(px) ==
    <<(px[1] * px[4]) \div 255, (px[2] * px[4]) \div 255,
      (px[3] * px[4]) \div 255, px[4]>>

\* a source pixel weighted by an anti-aliasing coverage of cov/255
Scale(px, cov) ==
    <<(px[1] * cov) \div 255, (px[2] * cov) \div 255,
      (px[3] * cov) \div 255, (px[4] * cov) \div 255>>

\* source-over blending on premultiplied pixels
Over(s, d) ==
    LET k == 255 - s[4]
    IN  <<s[1] + (d[1] * k) \div 255, s[2] + (d[2] * k) \div 255,
          s[3] + (d[3] * k) \div 255, s[4] + (d[4] * k) \div 255>>

NoPixmap == [some |-> FALSE, w |-> 0, h |-> 0, data |-> <<>>]

\* Pixmap::new: None for an empty size, else a transparent buffer
PixmapNew(w, h) ==
    IF w = 0 \/ h = 0 THEN NoPixmap
    ELSE [some |-> TRUE, w |-> w, h |-> h,
          data |-> [i \in 1..(w * h) |-> Transparent]]

\* a w x h pixmap all of whose pixels are px (Pixmap::from_vec)
PixmapUniform(w, h, px) ==
    [some |-> TRUE, w |-> w, h |-> h, data |-> [i \in 1..(w * h) |-> px]]

\* Pixmap::fill
PixmapFill(pm, px) == [pm EXCEPT !.data = [i \in 1..(pm.w * pm.h) |-> px]]

Min(a, b) == IF a < b THEN a ELSE b
Max(a, b) == IF a > b THEN a ELSE b

\* length, in halves, of the part of pixel column/row p covered by [lo, hi)
Overlap(p, lo, hi) == Max(0, Min(2 * p + 2, hi) - Max(2 * p, lo))

\* coverage (0..255) of pixel (px, py) by the rectangle [x0,x1) x [y0,y1)
Coverage(px, py, x0, y0, x1, y1) ==
    (255 * Overlap(px, x0, x1) * Overlap(py, y0, y1)) \div 4

\* fill_rect / fill_path of a rectangle with a source pixel, anti-aliased,
\* source-over, clipped to the pixmap
FillRectOn(pm, x0, y0, x1, y1, src) ==
    [pm EXCEPT !.data =
        [i \in 1..(pm.w * pm.h) |->
            LET px  == (i - 1) % pm.w
                py  == (i - 1) \div pm.w
                cov == Coverage(px, py, x0, y0, x1, y1)
            IN  IF cov = 0 THEN pm.data[i]
                ELSE Over(Scale(src, cov), pm.data[i])]]

\* draw_pixmap(0, 0, src, identity): every source pixel over the target
DrawPixmapOn(pm, src) ==
    [pm EXCEPT !.data =
        [i \in 1..(pm.w * pm.h) |->
            LET px == (i - 1) % pm.w
                py == (i - 1) \div pm.w
            IN  IF px < src.w /\ py < src.h
                THEN Over(src.data[py * src.w + px + 1], pm.data[i])
                ELSE pm.data[i]]]

\* Whether the tiny-skia the crate is built with gives Some for a
\* rectangle without area.  The source does not fix the library's version:
\* the code's error messages say width and height must be > 0, later
\* versions of the library accept a zero width or height.
VARIABLE zero_area_rect

\* Rect::from_xywh(0, 0, w, h) is Some
RectOk(w, h) ==
    /\ IsFinite(w)
    /\ IsFinite(h)
    /\ IF zero_area_rect THEN w >= 0 /\ h >= 0 ELSE w > 0 /\ h > 0

(***************************************************************************)
(* Resource blobs: what the bytes decode to.                               *)
(***************************************************************************)
ImageBlob(px) == [px |-> px, kind |-> "image", family |-> <<>>, ink |-> 0]
FontBlob(family, ink) ==
    [px |-> Transparent, kind |-> "font", family |-> family, ink |-> ink]
JunkBlob == [px |-> Transparent, kind |-> "junk", family |-> <<>>, ink |-> 0]

\* image::load_from_memory succeeds
Decodable(blob) == blob.kind = "image"

\* decode, resize to tw x th, to_rgba8, premultiply, Pixmap::from_vec
DecodeResize(blob, tw, th) == PixmapUniform(tw, th, Premultiply(blob.px))

\* IsFontName, had the name's suffix not been looked at
IsFontName_AnyName(name) == Len(name) >= 0

IsFontName(name) ==
    \/ EndsWith(name, <<".","t","t","f">>)
    \/ EndsWith(name, <<".","o","t","f">>)
    \/ EndsWith(name, <<".","w","o","f","f","2">>)

\* the faces load_font_data adds to the database (none for junk bytes)
FacesOf(blob) ==
    IF blob.kind = "font"
    THEN <<[family |-> blob.family, ink |-> blob.ink]>>
    ELSE <<>>

(***************************************************************************)
(* Font family resolution of a Text item.                                  *)
(***************************************************************************)
Upper == <<"A","B","C","D","E","F","G","H","I","J","K","L","M",
           "N","O","P","Q","R","S","T","U","V","W","X","Y","Z">>
Lower == <<"a","b","c","d","e","f","g","h","i","j","k","l","m",
           "n","o","p","q","r","s","t","u","v","w","x","y","z">>

ToLowerChar(c) ==
    IF \E i \in 1..26 : Upper[i] = c
    THEN Lower[CHOOSE i \in 1..26 : Upper[i] = c]
    ELSE c

\* str::to_lowercase
ToLower(s) == [i \in 1..Len(s) |-> ToLowerChar(s[i])]

\* str::replace(' ', "")
RemoveSpaces(s) == SelectSeq(s, LAMBDA c : c # " ")

RECURSIVE Trim(_)
\* str::trim
Trim(s) ==
    IF s = <<>> THEN s
    ELSE IF s[1] = " " THEN Trim(Tail(s))
    ELSE IF s[Len(s)] = " " THEN Trim(SubSeq(s, 1, Len(s) - 1))
    ELSE s

RECURSIVE SplitComma(_)
\* str::split(','): the pieces between commas, empty pieces included
SplitComma(s) ==
    IF \A i \in 1..Len(s) : s[i] # ","
    THEN <<s>>
    ELSE LET k == CHOOSE i \in 1..Len(s) :
                     s[i] = "," /\ \A j \in 1..(i - 1) : s[j] # ","
         IN  <<SubSeq(s, 1, k - 1)>> \o SplitComma(SubSeq(s, k + 1, Len(s)))

SansSerif == [kind |-> "SansSerif", name |-> <<>>]
Serif     == [kind |-> "Serif", name |-> <<>>]
Monospace == [kind |-> "Monospace", name |-> <<>>]
FamilyName(n) == [kind |-> "Name", name |-> n]
Unresolved == [kind |-> "None", name |-> <<>>]

\* the face.families loop of one token: a face matches when its family
\* equals the token case-insensitively, verbatim or with spaces removed
FaceMatches(face, f) ==
    \/ RemoveSpaces(ToLower(face.family)) = RemoveSpaces(ToLower(f))
    \/ ToLower(face.family) = ToLower(f)

\* found_name after faces().for_each: every match overwrites the previous
\* one, so the last matching face of the list is kept
FoundName(faces, f) ==
    LET hits == {i \in 1..Len(faces) : FaceMatches(faces[i], f)}
    IN  IF hits = {} THEN Unresolved
        ELSE FamilyName(faces[CHOOSE i \in hits : \A j \in hits : j <= i].family)

\* one iteration of `for f in family_list`: the family the token decides,
\* or Unresolved when the loop goes on to the next token
TokenFamily(faces, f) ==
    LET l == ToLower(f)
    IN  IF l \in { <<"a","r","i","a","l">>,
                   <<"s","a","n","s","-","s","e","r","i","f">>,
                   <<"s","a","n","s"," ","s","e","r","i","f">>,
                   <<"s","y","s","t","e","m","-","u","i">>,
                   <<"-","a","p","p","l","e","-","s","y","s","t","e","m">> }
        THEN SansSerif
        ELSE IF l = <<"s","e","r","i","f">> THEN Serif
        ELSE IF l \in { <<"m","o","n","o">>,
                        <<"m","o","n","o","s","p","a","c","e">> }
        THEN Monospace
        ELSE FoundName(faces, f)

RECURSIVE FirstResolved(_, _)
FirstResolved(faces, tokens) ==
    IF tokens = <<>> THEN SansSerif
    ELSE LET t == TokenFamily(faces, Head(tokens))
         IN  IF t # Unresolved THEN t ELSE FirstResolved(faces, Tail(tokens))

\* the Family given to Attrs for font_family
ResolveFamily(faces, font_family) ==
    FirstResolved(faces, [i \in 1..Len(SplitComma(font_family)) |->
                             Trim(SplitComma(font_family)[i])])

(***************************************************************************)
(* The font database (cosmic_text::FontSystem / fontdb).                   *)
(***************************************************************************)
\* fontdb's initial generic families
DefaultGeneric ==
    [sans_serif |-> <<"A","r","i","a","l">>,
     serif      |-> <<"T","i","m","e","s">>,
     monospace  |-> <<"C","o","u","r","i","e","r">>,
     cursive    |-> <<"C","o","m","i","c">>,
     fantasy    |-> <<"I","m","p","a","c","t">>]

AllGeneric(family) ==
    [sans_serif |-> family, serif |-> family, monospace |-> family,
     cursive |-> family, fantasy |-> family]

\* the family name a Family stands for in the database
FamilyToName(fs, family) ==
    CASE family.kind = "SansSerif" -> fs.generic.sans_serif
      [] family.kind = "Serif"     -> fs.generic.serif
      [] family.kind = "Monospace" -> fs.generic.monospace
      [] OTHER                     -> family.name

\* the face that shapes a run: the first face of the family, else the
\* first face of the database (fallback); 0 when the database is empty
FaceFor(fs, family) ==
    LET n    == FamilyToName(fs, family)
        hits == {i \in 1..Len(fs.faces) : fs.faces[i].family = n}
    IN  IF hits # {} THEN CHOOSE i \in hits : \A j \in hits : i <= j
        ELSE IF fs.faces # <<>> THEN 1
        ELSE 0

(***************************************************************************)
(* Renderer::render_raw                                                    *)
(*                                                                         *)
(* A renderer R is the struct's fields:                                    *)
(*   font_system   [faces: the database's faces in load order,             *)
(*                  generic: the five generic family names]               *)
(*   pixmap_buffer Option<Pixmap>                                          *)
(*   image_cache   cache key -> Pixmap                                     *)
(*   loaded_fonts  the resource names already ingested                     *)
(* (swash_cache only memoises glyph images and is left out.)               *)
(***************************************************************************)
NoErr == [kind |-> "Ok", arg |-> <<>>]
PixmapCreationError == [kind |-> "PixmapCreationError", arg |-> <<>>]
InvalidColorFormat(s) == [kind |-> "InvalidColorFormat", arg |-> s]
InvalidDimensions(what) == [kind |-> "InvalidDimensions", arg |-> <<what>>]

RECURSIVE LoadFonts(_, _, _, _)
\* the loop over the resource map; order is the order in which the map's
\* iterator yields its font-named keys (the other keys do nothing)
LoadFonts(faces, loaded, resources, order) ==
    IF order = <<>>
    THEN [faces |-> faces, loaded |-> loaded, new_fonts |-> FALSE]
    ELSE LET name == Head(order)
         IN  IF IsFontName(name) /\ name \notin loaded
             THEN [LoadFonts(faces \o FacesOf(resources[name]),
                             loaded \cup {name}, resources, Tail(order))
                   EXCEPT !.new_fonts = TRUE]
             ELSE LoadFonts(faces, loaded, resources, Tail(order))

\* IngestFonts, had loaded_fonts not been consulted
IngestFonts_Reload(R, resources, order) ==
    LET l == LoadFonts(R.font_system.faces, {}, resources, order)
    IN  [R EXCEPT !.loaded_fonts = R.loaded_fonts \cup l.loaded,
                  !.font_system =
                      [faces   |-> l.faces,
                       generic |-> IF l.new_fonts /\ l.faces # <<>>
                                   THEN AllGeneric(l.faces[1].family)
                                   ELSE R.font_system.generic]]

\* the font system after ingestion: with new fonts, all generic families
\* are set to the family of the first face of the database
IngestFonts(R, resources, order) ==
    LET l == LoadFonts(R.font_system.faces, R.loaded_fonts, resources, order)
    IN  [R EXCEPT !.loaded_fonts = l.loaded,
                  !.font_system =
                      [faces   |-> l.faces,
                       generic |-> IF l.new_fonts /\ l.faces # <<>>
                                   THEN AllGeneric(l.faces[1].family)
                                   ELSE R.font_system.generic]]

\* AcquireBuffer, had a held buffer been kept whatever its size
AcquireBuffer_KeepSize(buf, sigil) ==
    IF ~buf.some
    THEN [new |-> TRUE, pix |-> PixmapNew(sigil.width, sigil.height)]
    ELSE [new |-> FALSE, pix |-> buf]

\* AcquireBuffer with a new buffer in every call
AcquireBuffer_Always(buf, sigil) ==
    [new |-> TRUE, pix |-> PixmapNew(sigil.width, sigil.height)]

\* the buffer the call paints into: a new one (new is TRUE) when none is
\* held or its size differs from the scene's
AcquireBuffer(buf, sigil) ==
    IF ~buf.some \/ buf.w # sigil.width \/ buf.h # sigil.height
    THEN [new |-> TRUE, pix |-> PixmapNew(sigil.width, sigil.height)]
    ELSE [new |-> FALSE, pix |-> buf]

\* what a call does with the image cache, noted in st.log: the key looked
\* up for a background or an image layer was found (hit), or the blob of
\* the source was decoded to w x h pixels and stored under the key
CacheEvent(kind, key, source, w, h, hit) ==
    [w |-> w,
     h |-> h,
     kind |-> kind,
     key |-> key,
     source |-> source,
     hit |-> hit]

BgCacheKey(sigil) ==
    <<"b","g","_">> \o sigil.background \o <<"_">> \o Dec(sigil.width)
        \o <<"_">> \o Dec(sigil.height)

ImageCacheKey(img) ==
    img.source \o <<"_">> \o FmtF32(img.width) \o <<"_">> \o FmtF32(img.height)

\* the background step: st is [pix, cache, err, log]
PaintBackground(st, sigil, resources) ==
    IF IsColor(sigil.background)
    THEN [st EXCEPT !.pix = PixmapFill(st.pix, parse_color(sigil.background))]
    ELSE LET key == BgCacheKey(sigil)
         IN  IF key \in DOMAIN st.cache
             THEN [st EXCEPT !.pix = DrawPixmapOn(st.pix, st.cache[key]),
                             !.log = Append(@, CacheEvent("bg", key,
                                        sigil.background, sigil.width,
                                        sigil.height, TRUE))]
             ELSE IF sigil.background \in DOMAIN resources
                     /\ Decodable(resources[sigil.background])
             THEN LET pm == DecodeResize(resources[sigil.background],
                                         sigil.width, sigil.height)
                  IN  [st EXCEPT !.cache = (key :> pm) @@ st.cache,
                                 !.pix = DrawPixmapOn(st.pix, pm),
                                 !.log = Append(@, CacheEvent("bg", key,
                                            sigil.background, sigil.width,
                                            sigil.height, FALSE))]
             ELSE [st EXCEPT !.pix = PixmapFill(st.pix, <<0, 0, 0, 255>>)]

\* PaintRect, had a rectangle without area been skipped
PaintRect_ZeroSkipped(st, layer, rect) ==
    IF ~IsColor(rect.color)
    THEN [st EXCEPT !.err = InvalidColorFormat(rect.color)]
    ELSE IF ~RectOk(rect.width, rect.height)
    THEN st
    ELSE [st EXCEPT !.pix =
             FillRectOn(st.pix, layer.x, layer.y, layer.x + rect.width,
                        layer.y + rect.height, parse_color(rect.color))]

PaintRect(st, layer, rect) ==
    IF ~IsColor(rect.color)
    THEN [st EXCEPT !.err = InvalidColorFormat(rect.color)]
    ELSE IF ~RectOk(rect.width, rect.height)
    THEN [st EXCEPT !.err = InvalidDimensions("Rect")]
    ELSE [st EXCEPT !.pix =
             FillRectOn(st.pix, layer.x, layer.y, layer.x + rect.width,
                        layer.y + rect.height, parse_color(rect.color))]

\* the pattern fill of an image layer from its cached pixmap
DrawImage(st, layer, img, pm) ==
    [st EXCEPT !.pix =
        FillRectOn(st.pix, layer.x, layer.y, layer.x + img.width,
                   layer.y + img.height, pm.data[1])]

\* PaintImage, had an undecodable image resource been an error
PaintImage_DecodeFails(st, layer, img, resources) ==
    LET key == ImageCacheKey(img)
        tw  == AsU32(img.width)
        th  == AsU32(img.height)
    IN  IF key \in DOMAIN st.cache
        THEN DrawImage([st EXCEPT !.log = Append(@, CacheEvent("image", key,
                                      img.source, st.cache[key].w,
                                      st.cache[key].h, TRUE))],
                       layer, img, st.cache[key])
        ELSE IF img.source \in DOMAIN resources
        THEN IF ~Decodable(resources[img.source])
             THEN [st EXCEPT !.err = InvalidDimensions("Image")]
             ELSE IF tw = 0 \/ th = 0 THEN st
             ELSE LET pm == DecodeResize(resources[img.source], tw, th)
                  IN  DrawImage([st EXCEPT !.cache = (key :> pm) @@ st.cache,
                                           !.log = Append(@,
                                               CacheEvent("image", key,
                                                   img.source, tw, th,
                                                   FALSE))],
                                layer, img, pm)
        ELSE st

PaintImage(st, layer, img, resources) ==
    LET key == ImageCacheKey(img)
        tw  == AsU32(img.width)
        th  == AsU32(img.height)
    IN  IF key \in DOMAIN st.cache
        THEN DrawImage([st EXCEPT !.log = Append(@, CacheEvent("image", key,
                                      img.source, st.cache[key].w,
                                      st.cache[key].h, TRUE))],
                       layer, img, st.cache[key])
        ELSE IF img.source \in DOMAIN resources
        THEN IF ~Decodable(resources[img.source]) THEN st
             ELSE IF tw = 0 \/ th = 0 THEN st
             ELSE LET pm == DecodeResize(resources[img.source], tw, th)
                  IN  DrawImage([st EXCEPT !.cache = (key :> pm) @@ st.cache,
                                           !.log = Append(@,
                                               CacheEvent("image", key,
                                                   img.source, tw, th,
                                                   FALSE))],
                                layer, img, pm)
        ELSE st

\* the tile of one glyph: the text colour premultiplied by the mask value
GlyphPixel(color, mask) ==
    <<(color[1] * mask) \div 255, (color[2] * mask) \div 255,
      (color[3] * mask) \div 255, (color[4] * mask) \div 255>>

RECURSIVE DrawGlyphs(_, _, _, _, _)
\* one 1 x 1 glyph tile per character, advancing one pixel per character;
\* a space has an empty image
DrawGlyphs(pix, layer, text, i, px) ==
    IF i > Len(text) THEN pix
    ELSE DrawGlyphs(
            IF text[i] = " " THEN pix
            ELSE FillRectOn(pix, layer.x + F(i - 1), layer.y,
                            layer.x + F(i), layer.y + F(1), px),
            layer, text, i + 1, px)

PaintText(st, layer, text_item, fs) ==
    IF ~IsColor(text_item.color)
    THEN [st EXCEPT !.err = InvalidColorFormat(text_item.color)]
    ELSE LET family == ResolveFamily(fs.faces, text_item.font_family)
             face   == FaceFor(fs, family)
         IN  IF face = 0 THEN st
             ELSE [st EXCEPT !.pix =
                     DrawGlyphs(st.pix, layer, text_item.text, 1,
                                GlyphPixel(parse_color(text_item.color),
                                           fs.faces[face].ink))]

\* FillWidth, had the value been divided by max_value itself
FillWidth_NoFloor(slider) ==
    LET mx == slider.max_value
    IN  IF ~IsFinite(slider.value) /\ ~IsFinite(mx)
        THEN [cls |-> "nan", num |-> 0, den |-> 1]
        ELSE IF ~IsFinite(slider.value)
        THEN [cls |-> IF slider.value > 0 THEN "inf" ELSE "-inf",
              num |-> 0, den |-> 1]
        ELSE IF ~IsFinite(mx)
        THEN [cls |-> "fin", num |-> 0, den |-> 1]
        ELSE IF mx = 0
        THEN [cls |-> IF slider.value > 0 THEN "inf"
                      ELSE IF slider.value < 0 THEN "-inf" ELSE "nan",
              num |-> 0, den |-> 1]
        ELSE [cls |-> "fin", num |-> slider.value * slider.width, den |-> mx]

\* fill_width = (value / max_value.max(1.0)) * width as a fraction
\* num/den of a half, or "inf"/"nan" when it is not finite
FillWidth(slider) ==
    LET mx == Max(slider.max_value, F(1))
    IN  IF ~IsFinite(slider.value) /\ ~IsFinite(mx)
        THEN [cls |-> "nan", num |-> 0, den |-> 1]
        ELSE IF ~IsFinite(slider.value)
        THEN [cls |-> IF slider.value > 0 THEN "inf" ELSE "-inf",
              num |-> 0, den |-> 1]
        ELSE IF ~IsFinite(mx)
        THEN [cls |-> "fin", num |-> 0, den |-> 1]
        ELSE [cls |-> "fin", num |-> slider.value * slider.width, den |-> mx]

\* fill of [x0, x0 + num/den) x [y0, y1), x in halves scaled by den
FillFractionOn(pm, x0, y0, num, den, y1, src) ==
    [pm EXCEPT !.data =
        [i \in 1..(pm.w * pm.h) |->
            LET px  == (i - 1) % pm.w
                py  == (i - 1) \div pm.w
                ox  == Max(0, Min((2 * px + 2) * den, x0 * den + num)
                               - Max(2 * px * den, x0 * den))
                cov == (255 * ox * Overlap(py, y0, y1)) \div (4 * den)
            IN  IF cov = 0 THEN pm.data[i]
                ELSE Over(Scale(src, cov), pm.data[i])]]

PaintSlider(st, layer, slider) ==
    IF ~IsColor(slider.background_color)
    THEN [st EXCEPT !.err = InvalidColorFormat(slider.background_color)]
    ELSE IF ~IsColor(slider.fill_color)
    THEN [st EXCEPT !.err = InvalidColorFormat(slider.fill_color)]
    ELSE IF ~RectOk(slider.width, slider.height)
    THEN [st EXCEPT !.err = InvalidDimensions("Slider")]
    ELSE LET bg == FillRectOn(st.pix, layer.x, layer.y,
                              layer.x + slider.width,
                              layer.y + slider.height,
                              parse_color(slider.background_color))
             fw == FillWidth(slider)
         IN  IF fw.cls = "inf"
             THEN [st EXCEPT !.pix = bg, !.err = InvalidDimensions("Fill")]
             ELSE IF fw.cls = "fin" /\ fw.num > 0
             THEN [st EXCEPT !.pix =
                      FillFractionOn(bg, layer.x, layer.y, fw.num, fw.den,
                                     layer.y + slider.height,
                                     parse_color(slider.fill_color))]
             ELSE [st EXCEPT !.pix = bg]

\* the body of `for layer in &sigil.layers` for one layer
PaintLayer(st, layer, resources, fs) ==
    CASE layer.item.type = "Rect"   -> PaintRect(st, layer, layer.item)
      [] layer.item.type = "Image"  -> PaintImage(st, layer, layer.item, resources)
      [] layer.item.type = "Text"   -> PaintText(st, layer, layer.item, fs)
      [] layer.item.type = "Slider" -> PaintSlider(st, layer, layer.item)

RECURSIVE PaintLayers(_, _, _, _, _)
\* the layer loop from layer i on: the first error ends it
PaintLayers(st, layers, i, resources, fs) ==
    IF i > Len(layers) \/ st.err # NoErr THEN st
    ELSE PaintLayers(PaintLayer(st, layers[i], resources, fs),
                     layers, i + 1, resources, fs)

Ok(data) == [data |-> data, err |-> NoErr, ok |-> TRUE]
Err(e) == [data |-> <<>>, err |-> e, ok |-> FALSE]

\* render_raw(&mut self, sigil, resources): the renderer after the call
\* and the value returned, with what the call did on the way: whether it
\* called Pixmap::new, and its cache events
render_raw(R, sigil, resources, order) ==
    LET R1  == IngestFonts(R, resources, order)
        acq == AcquireBuffer(R.pixmap_buffer, sigil)
        buf == acq.pix
    IN  IF ~buf.some
        THEN [log       |-> <<>>,
              renderer  |-> [R1 EXCEPT !.pixmap_buffer = NoPixmap],
              result    |-> Err(PixmapCreationError),
              allocated |-> acq.new]
        ELSE LET st0 == [pix |-> buf,
                         cache |-> R.image_cache,
                         log |-> <<>>,
                         err |-> NoErr]
                 st1 == PaintBackground(st0, sigil, resources)
                 st2 == PaintLayers(st1, sigil.layers, 1, resources,
                                    R1.font_system)
             IN  [log       |-> st2.log,
                  renderer  |-> [R1 EXCEPT !.pixmap_buffer = st2.pix,
                                           !.image_cache = st2.cache],
                  result    |-> IF st2.err = NoErr THEN Ok(st2.pix.data)
                                ELSE Err(st2.err),
                  allocated |-> acq.new]

(***************************************************************************)
(* Scenes (sigil_core::Sigil, Layer, Item).                                *)
(***************************************************************************)
RectItem(width, height, color) ==
    [width |-> width,
     height |-> height,
     color |-> color,
     type |-> "Rect",
     border_radius |-> 0]

ImageItem(source, width, height) ==
    [width |-> width,
     height |-> height,
     source |-> source,
     type |-> "Image",
     border_radius |-> 0]

TextItem(text, color, font_family) ==
    [font_family |-> font_family,
     color |-> color,
     text |-> text,
     type |-> "Text",
     font_size |-> F(1)]

SliderItem(width, height, value, max_value, background_color, fill_color) ==
    [width |-> width,
     height |-> height,
     max_value |-> max_value,
     value |-> value,
     background_color |-> background_color,
     fill_color |-> fill_color,
     type |-> "Slider",
     border_radius |-> 0]

\* layers of the model are unrotated and lie on the first pixel row
Layer(x, visible, item) ==
    [x |-> x,
     y |-> 0,
     item |-> item,
     visible |-> visible,
     id |-> <<"l">>,
     rotation |-> 0]

Sigil(width, height, background, layers) ==
    [width |-> width, height |-> height, background |-> background,
     layers |-> layers]

\* all sequences over S of length at most n
SeqsUpTo(S, n) == UNION {[1..k -> S] : k \in 0..n}

\* all orders in which a set of names can be visited
Perms(S) ==
    {p \in [1..Cardinality(S) -> S] : \A i, j \in 1..Cardinality(S) :
                                          p[i] = p[j] => i = j}

FontNames(resources) == {n \in DOMAIN resources : IsFontName(n)}

(***************************************************************************)
(* Strings used by the scenes and resource maps of the model.              *)
(***************************************************************************)
Black  == <<"#","0","0","0","0","0","0">>
Red    == <<"#","f","f","0","0","0","0">>
Green  == <<"#","0","0","F","F","0","0">>
NotHex == <<"#","f","f","0","0","0","g">>
Short  == <<"r","e","d">>
\* six characters after '#', the first of each pair a sign
PlusRed == <<"#","+","f","+","0","+","0">>

NameA  == <<"a">>
NameB  == <<"b">>

OpaqueImage      == ImageBlob(<<0, 0, 255, 255>>)
TranslucentImage == ImageBlob(<<255, 255, 255, 240>>)

(***************************************************************************)
(* The state: one renderer and its last call (arguments and value), and   *)
(* the last call of Sigil::resolve (receiver, variable map, the order in   *)
(* which the map iterated, value).  Three variables record what the        *)
(* renderer did: allocated (the last call made a new buffer), cache_log    *)
(* (the cache events of the last call) and stored (every entry a call      *)
(* has decoded and stored so far).  hex and color are the argument and    *)
(* the outcome of the last direct call of parse_color.  The remaining     *)
(* variables are the signals of the editor's App component: editor_sigil   *)
(* is its scene (the signal the source calls sigil), and panicked records  *)
(* that one of its handlers indexed the layer list out of range.           *)
(***************************************************************************)
VARIABLES renderer, sigil, resources, font_order, result,
          template, variables, var_order, resolved,
          allocated, cache_log, stored,
          hex, color,
          editor_sigil, dragging, dragging_layer_index, drag_over_state,
          selected_layers, locked_layers, clipboard, layer_id_counter,
          panicked

render_vars == <<renderer, sigil, resources, font_order, result,
                 allocated, cache_log, stored>>

resolve_vars == <<template, variables, var_order, resolved>>

color_vars == <<hex, color>>

editor_vars == <<editor_sigil, dragging, dragging_layer_index,
                 drag_over_state, selected_layers, locked_layers, clipboard,
                 layer_id_counter, panicked>>

vars == <<render_vars, zero_area_rect, resolve_vars, color_vars, editor_vars>>

\* Option<T>: None, Some(v)
None == <<>>
Some(v) == <<v>>

\* a layer of the editor's scene.  Its id is kept as the pieces that
\* format!("{}_{}", ..) joins with '_' ("text_3" is <<"text", 3>>); of the
\* other fields only those the handlers below read are kept.  locked_by_user
\* is a history field: whether the user's last click on this layer's lock
\* button locked it.
EditorLayer(id) == [id |-> id, locked_by_user |-> FALSE]

\* the scene use_signal builds: layers "bg" and "text"
InitialLayers == <<EditorLayer(<<"bg">>), EditorLayer(<<"text">>)>>

\* the faces FontSystem::new() finds installed on the machine
SystemFaces == <<[family |-> <<"S","y","s">>, ink |-> 255]>>

\* Renderer::new()
NewRenderer(faces) ==
    [font_system   |-> [faces |-> faces, generic |-> DefaultGeneric],
     loaded_fonts  |-> {},
     pixmap_buffer |-> NoPixmap,
     image_cache   |-> <<>>]

NoCall == [data |-> <<>>,
           err |-> [kind |-> "NoCall", arg |-> <<>>],
           ok |-> FALSE]

Init ==
    /\ renderer = NewRenderer(SystemFaces)
    /\ sigil = Sigil(0, 0, <<>>, <<>>)
    /\ resources = <<>>
    /\ font_order = <<>>
    /\ result = NoCall
    /\ zero_area_rect \in BOOLEAN
    /\ template = Sigil(0, 0, <<>>, <<>>)
    /\ variables = <<>>
    /\ var_order = <<>>
    /\ resolved = Sigil(0, 0, <<>>, <<>>)
    /\ allocated = FALSE
    /\ cache_log = <<>>
    /\ stored = {}
    /\ hex = <<>>
    /\ color = NoColor
    /\ editor_sigil = [layers |-> InitialLayers]
    /\ dragging = None
    /\ dragging_layer_index = None
    /\ drag_over_state = None
    /\ selected_layers = {}
    /\ locked_layers = {}
    /\ clipboard = <<>>
    /\ layer_id_counter = 2
    /\ panicked = FALSE

\* one call renderer.render_raw(&s, &r), the map iterating in order o
RenderRaw(s, r, o) ==
    \E out \in {render_raw(renderer, s, r, o)} :
        /\ renderer' = out.renderer
        /\ result' = out.result
        /\ sigil' = s
        /\ resources' = r
        /\ font_order' = o
        /\ allocated' = out.allocated
        /\ cache_log' = out.log
        /\ stored' = stored \cup {out.log[i] : i \in {j \in 1..Len(out.log) :
                                                      ~out.log[j].hit}}
        /\ UNCHANGED <<zero_area_rect, resolve_vars, color_vars, editor_vars>>

\* a call with any scene of S and any resource map of M
Render(S, M) ==
    \E s \in S, r \in M : \E o \in Perms(FontNames(r)) : RenderRaw(s, r, o)

(***************************************************************************)
(* Spec: scenes of rectangles and images over colour and image             *)
(* backgrounds, rendered with maps that hold, or lack, the image.          *)
(***************************************************************************)
PaintLayerSet ==
    {Layer(0, FALSE, RectItem(F(2), F(1), Green)),
     Layer(1, TRUE, ImageItem(NameA, F(1), F(1))),
     Layer(0, TRUE, RectItem(F(1), F(1), PlusRed))}

PaintScenes ==
    {Sigil(w, 1, bg, ls) : w \in 0..MaxW, bg \in {Black, NameA},
                           ls \in SeqsUpTo(PaintLayerSet, MaxLayers)}

PaintMaps == {<<>>, NameA :> TranslucentImage}

Next == Render(PaintScenes, PaintMaps)

Spec == Init /\ [][Next]_vars

(***************************************************************************)
(* Helpers of the properties.                                              *)
(***************************************************************************)
Called == result.err.kind # "NoCall"

\* the scene without its layer i
RemoveLayer(s, i) ==
    [s EXCEPT !.layers = SubSeq(s.layers, 1, i - 1)
                             \o SubSeq(s.layers, i + 1, Len(s.layers))]

\* what the call just made would have returned for scene s
ResultFor(s) == render_raw(renderer, s, resources', font_order').result

\* the image cache the call just made would have left for scene s
CacheFor(s) == render_raw(renderer, s, resources', font_order').renderer.image_cache

(***************************************************************************)
(* C1  Cache transparency: a call that repeats the previous call's scene   *)
(* and resources on the same renderer returns what the previous call       *)
(* returned.                                                               *)
(***************************************************************************)
C1_CacheTransparency ==
    [][(Called /\ sigil' = sigil /\ resources' = resources
               /\ font_order' = font_order)
       => result' = result]_vars

(***************************************************************************)
(* C2  A layer with visible = FALSE is skipped: the call returns what it   *)
(* returns for the scene without that layer, and caches what it caches     *)
(* for the scene without that layer.                                       *)
(***************************************************************************)
C2_InvisibleSkipped ==
    [][\A i \in 1..Len(sigil'.layers) :
          ~sigil'.layers[i].visible
          => /\ result' = ResultFor(RemoveLayer(sigil', i))
             /\ renderer'.image_cache = CacheFor(RemoveLayer(sigil', i))]_vars

(***************************************************************************)
(* C3  An Image layer whose source is not a key of the call's resource map *)
(* is skipped, whatever calls came before: the call returns what it        *)
(* returns for the scene without that layer.                               *)
(***************************************************************************)
C3_MissingImageSkipped ==
    [][\A i \in 1..Len(sigil'.layers) :
          (/\ sigil'.layers[i].item.type = "Image"
           /\ sigil'.layers[i].item.source \notin DOMAIN resources')
          => result' = ResultFor(RemoveLayer(sigil', i))]_vars

(***************************************************************************)
(* C9  Painter's order.  In the buffer a successful call returns, a pixel  *)
(* that no visible layer touches has the background colour, and a pixel    *)
(* whose topmost visible layer is an opaque, unrotated rectangle or slider *)
(* covering it completely has that layer's colour.                         *)
(***************************************************************************)
ItemW(item) == IF item.type = "Text" THEN F(Len(item.text)) ELSE item.width
ItemH(item) == IF item.type = "Text" THEN F(1) ELSE item.height

\* coverage of pixel (px, py) by the layer's box
LayerCoverage(layer, px, py) ==
    IF ItemW(layer.item) <= 0 \/ ItemH(layer.item) <= 0 THEN 0
    ELSE Coverage(px, py, layer.x, layer.y, layer.x + ItemW(layer.item),
                  layer.y + ItemH(layer.item))

\* the colour an opaque layer gives pixel (px, py), NoColor when the layer
\* is not an opaque rectangle or slider covering the whole pixel
OpaqueColorAt(layer, px, py) ==
    LET it == layer.item
    IN  IF layer.rotation # 0 \/ LayerCoverage(layer, px, py) # 255
        THEN NoColor
        ELSE IF it.type = "Rect" THEN parse_color(it.color)
        ELSE IF it.type = "Slider"
        THEN LET fw == FillWidth(it)
                 in == IF fw.cls = "fin" /\ fw.num > 0
                       THEN Max(0, Min((2 * px + 2) * fw.den,
                                       layer.x * fw.den + fw.num)
                                   - Max(2 * px * fw.den, layer.x * fw.den))
                       ELSE 0
             IN  IF in = 0 THEN parse_color(it.background_color)
                 ELSE IF in = 2 * fw.den THEN parse_color(it.fill_color)
                 ELSE NoColor
        ELSE NoColor

HexDigits ==
    {"0","1","2","3","4","5","6","7","8","9",
     "a","b","c","d","e","f","A","B","C","D","E","F"}

\* '#' followed by exactly six hexadecimal digits
IsRRGGBB(s) ==
    /\ Len(s) = 7
    /\ s[1] = "#"
    /\ \A k \in 2..7 : s[k] \in HexDigits

\* the colour strings of an item, in the order the renderer reads them
ColorsOf(item) ==
    CASE item.type \in {"Rect", "Text"} -> <<item.color>>
      [] item.type = "Slider" -> <<item.background_color, item.fill_color>>
      [] OTHER -> <<>>

ColorsWellFormed(item) ==
    \A k \in 1..Len(ColorsOf(item)) : IsRRGGBB(ColorsOf(item)[k])

HasBox(item) == item.type \in {"Rect", "Image", "Slider"}

\* finite, positive width and height on every item that has them
BoxPositive(item) ==
    HasBox(item) => /\ IsFinite(item.width) /\ item.width > 0
                    /\ IsFinite(item.height) /\ item.height > 0

BoxNonPositive(item) == HasBox(item) /\ (item.width <= 0 \/ item.height <= 0)

\* a slider whose fill width (value / max(max_value, 1)) * width is +inf
FillInfinite(item) == item.type = "Slider" /\ FillWidth(item).cls = "inf"

WellFormedLayer(layer) ==
    ColorsWellFormed(layer.item) /\ BoxPositive(layer.item)

WellFormedScene(s) ==
    /\ s.width >= 1
    /\ s.height >= 1
    /\ \A i \in 1..Len(s.layers) : WellFormedLayer(s.layers[i])

\* the first colour string of the item that is not '#' and six hex digits
FirstBadColor(item) ==
    LET cs == ColorsOf(item)
        k  == CHOOSE k \in 1..Len(cs) :
                 ~IsRRGGBB(cs[k]) /\ \A m \in 1..(k - 1) : IsRRGGBB(cs[m])
    IN  cs[k]

(***************************************************************************)
(* C6  On a canvas that can be created, when the first layer that is not   *)
(* well formed has a colour string that is not '#' and six hexadecimal     *)
(* digits, the call fails with InvalidColorFormat carrying that string.    *)
(***************************************************************************)
C6_InvalidColorRejected ==
    (Called /\ sigil.width >= 1 /\ sigil.height >= 1) =>
        \A i \in 1..Len(sigil.layers) :
            (/\ ~ColorsWellFormed(sigil.layers[i].item)
             /\ \A j \in 1..(i - 1) :
                   /\ WellFormedLayer(sigil.layers[j])
                   /\ ~FillInfinite(sigil.layers[j].item))
            => result = Err(InvalidColorFormat(
                               FirstBadColor(sigil.layers[i].item)))

(***************************************************************************)
(* SpecResources: well-formed scenes, and a slider whose value is          *)
(* +infinity, rendered with maps whose entries are missing or do not       *)
(* decode.                                                                 *)
(***************************************************************************)
FontF == <<"f",".","t","t","f">>

ResLayerSet ==
    {Layer(0, TRUE, RectItem(F(1), F(1), Red)),
     Layer(0, TRUE, ImageItem(NameA, F(1), F(1))),
     Layer(0, TRUE, SliderItem(F(1), F(1), F(1), F(2), Black, Red)),
     Layer(0, TRUE, SliderItem(F(1), F(1), PosInf, F(2), Black, Red))}

ResScenes ==
    {Sigil(1, 1, NameA, ls) : ls \in SeqsUpTo(ResLayerSet, MaxLayers)}

\* no resources at all, and an image and a font that do not decode
ResMaps == {<<>>, (NameA :> JunkBlob) @@ (FontF :> JunkBlob)}

NextResources == Render(ResScenes, ResMaps)

SpecResources == Init /\ [][NextResources]_vars

NoFillInfinite(s) ==
    \A i \in 1..Len(s.layers) : ~FillInfinite(s.layers[i].item)

FontG == <<"g",".","o","t","f">>
FamilyB == <<"F","b">>

FontLayerSet ==
    {Layer(0, TRUE, TextItem(<<"x">>, Red, <<"s","a","n","s","-","s","e","r","i","f">>)),
     Layer(0, TRUE, TextItem(<<"x">>, Red, FamilyB))}

FontScenes ==
    {Sigil(1, 1, Black, ls) : ls \in SeqsUpTo(FontLayerSet, MaxLayers)}

\* the entries a map can hold: a font file under a font name, the same
\* file under a name without font suffix, and bytes that are no font
FontFiles ==
    (FontG :> FontBlob(FamilyB, 64)) @@ (NameB :> FontBlob(FamilyB, 64))
    @@ (NameA :> JunkBlob)

FontMaps == {[k \in D |-> FontFiles[k]] : D \in SUBSET DOMAIN FontFiles}

NextFonts == Render(FontScenes, FontMaps)

SpecFonts == Init /\ [][NextFonts]_vars

\* no layer of the scene, nor its background, names the resource e
Unreferenced(s, e) ==
    /\ s.background # e
    /\ \A i \in 1..Len(s.layers) :
          s.layers[i].item.type = "Image" => s.layers[i].item.source # e

\* the name ends in .ttf, .otf or .woff2
HasFontSuffix(e) ==
    \E suf \in { <<".","t","t","f">>, <<".","o","t","f">>,
                 <<".","w","o","f","f","2">> } : EndsWith(e, suf)

\* the map without its entry e
Without(r, e) == [k \in (DOMAIN r) \ {e} |-> r[k]]

\* what the call just made would have returned had its map lacked entry e
ResultWithout(e) ==
    render_raw(renderer, sigil', Without(resources', e),
               SelectSeq(font_order', LAMBDA n : n # e)).result

(***************************************************************************)
(* C5 (as stated)  An entry of the resource map that the scene does not    *)
(* reference changes nothing: the call returns what it returns on the      *)
(* same renderer with the map lacking that entry.                          *)
(***************************************************************************)
C5_UnusedEntryIgnored_Original ==
    [][\A e \in DOMAIN resources' :
          Unreferenced(sigil', e) => result' = ResultWithout(e)]_vars

(***************************************************************************)
(* C5 (amended)  An entry of the resource map that the scene does not      *)
(* reference, and that the call does not ingest as a font (its name has no *)
(* font suffix, or the renderer ingested that name before), changes        *)
(* nothing: the call returns what it returns with the map lacking it.      *)
(***************************************************************************)
C5_UnusedEntryIgnored ==
    [][\A e \in DOMAIN resources' :
          (/\ Unreferenced(sigil', e)
           /\ (~HasFontSuffix(e) \/ e \in renderer.loaded_fonts))
          => result' = ResultWithout(e)]_vars

\* a text layer asking for the family of a font file that the map holds
\* under a name without font suffix
C5_Witness ==
    /\ result.ok
    /\ NameB \in DOMAIN resources
    /\ Unreferenced(sigil, NameB)
    /\ \E i \in 1..Len(sigil.layers) :
          /\ sigil.layers[i].item.type = "Text"
          /\ sigil.layers[i].item.font_family = resources[NameB].family

(***************************************************************************)
(* SpecDims: scenes whose rectangles, images and sliders have a zero or    *)
(* negative width or height, alone and after one another.                  *)
(***************************************************************************)
DimLayerSet ==
    {Layer(0, TRUE, RectItem(-F(1), F(1), Red)),
     Layer(0, TRUE, RectItem(0, F(1), Red)),
     Layer(0, TRUE, RectItem(0, F(1), Short)),
     Layer(0, TRUE, ImageItem(NameA, 0, F(1))),
     Layer(0, TRUE, SliderItem(F(1), -F(1), F(1), F(2), Black, Red))}

DimScenes ==
    {Sigil(1, 1, NameA, ls) : ls \in SeqsUpTo(DimLayerSet, MaxLayers)}

DimMaps == {<<>>, NameA :> OpaqueImage}

NextDims == Render(DimScenes, DimMaps)

SpecDims == Init /\ [][NextDims]_vars

BoxNegative(item) == HasBox(item) /\ (item.width < 0 \/ item.height < 0)

\* a layer that cannot end the call: an image, or a well-formed layer
\* whose fill width is not infinite
NeverFails(layer) ==
    \/ layer.item.type = "Image"
    \/ WellFormedLayer(layer) /\ ~FillInfinite(layer.item)

C8_ErrorLeavesState ==
    [][~result'.ok => renderer' = renderer]_vars

(***************************************************************************)
(* Sigil::resolve and replace_vars (sigil-core).                           *)
(***************************************************************************)
\* Replace, had only the first match been replaced (str::replacen(.., 1))
Replace_Once(s, pat, to) ==
    LET at == {i \in 1..Len(s) : StartsWithAt(s, i, pat)}
    IN  IF at = {} THEN s
        ELSE LET i == CHOOSE i \in at : \A j \in at : i <= j
             IN  SubSeq(s, 1, i - 1) \o to
                 \o SubSeq(s, i + Len(pat), Len(s))

RECURSIVE Replace(_, _, _)
\* str::replace(pat, to): the non-overlapping matches of pat, found left
\* to right, are replaced; the replacement is not scanned
Replace(s, pat, to) ==
    IF s = <<>> THEN <<>>
    ELSE IF StartsWithAt(s, 1, pat)
    THEN to \o Replace(SubSeq(s, Len(pat) + 1, Len(s)), pat, to)
    ELSE <<Head(s)>> \o Replace(Tail(s), pat, to)

\* format!("{{{}}}", k)
Placeholder(k) == <<"{">> \o k \o <<"}">>

RECURSIVE replace_vars(_, _, _)
\* one replace per entry of the map, in the order the map iterates; each
\* replace scans the string the previous ones produced
replace_vars(input, vars_map, order) ==
    IF order = <<>> THEN input
    ELSE replace_vars(Replace(input, Placeholder(Head(order)),
                              vars_map[Head(order)]),
                      vars_map, Tail(order))

\* ResolveItem, had the font family of a text been substituted as well
ResolveItem_FontFamily(item, vars_map, order) ==
    CASE item.type = "Text" ->
            [item EXCEPT !.text = replace_vars(@, vars_map, order),
                         !.color = replace_vars(@, vars_map, order),
                         !.font_family = replace_vars(@, vars_map, order)]
      [] item.type = "Image" ->
            [item EXCEPT !.source = replace_vars(@, vars_map, order)]
      [] item.type = "Rect" ->
            [item EXCEPT !.color = replace_vars(@, vars_map, order)]
      [] item.type = "Slider" ->
            [item EXCEPT !.background_color = replace_vars(@, vars_map, order),
                         !.fill_color = replace_vars(@, vars_map, order)]

\* the match on layer.item
ResolveItem(item, vars_map, order) ==
    CASE item.type = "Text" ->
            [item EXCEPT !.text = replace_vars(@, vars_map, order),
                         !.color = replace_vars(@, vars_map, order)]
      [] item.type = "Image" ->
            [item EXCEPT !.source = replace_vars(@, vars_map, order)]
      [] item.type = "Rect" ->
            [item EXCEPT !.color = replace_vars(@, vars_map, order)]
      [] item.type = "Slider" ->
            [item EXCEPT !.background_color = replace_vars(@, vars_map, order),
                         !.fill_color = replace_vars(@, vars_map, order)]

\* self.resolve(variables)
resolve(self, vars_map, order) ==
    [self EXCEPT
        !.background = replace_vars(@, vars_map, order),
        !.layers = [i \in 1..Len(self.layers) |->
                       [self.layers[i] EXCEPT
                           !.item = ResolveItem(@, vars_map, order)]]]

\* one call s.resolve(&v), the map iterating in order o
Resolve(s, v, o) ==
    /\ template' = s
    /\ variables' = v
    /\ var_order' = o
    /\ resolved' = resolve(s, v, o)
    /\ UNCHANGED <<render_vars, zero_area_rect, color_vars, editor_vars>>

(***************************************************************************)
(* SpecResolve: scenes with a template in one substitutable field,         *)
(* resolved with maps whose values are plain or hold a placeholder.        *)
(***************************************************************************)
KeyA == <<"a">>
KeyB == <<"b">>

Templates ==
    { <<"{","a","}">>,
      <<"{","a","}","{","b","}">>,
      <<"x","{","b","}","y">>,
      <<"{","a","}","{","a","}">>,
      <<"{","c","}","{","b","}","{","a">> }

VarValues == { <<"1">>, <<"{","b","}">> }

VarMaps == UNION {[D -> VarValues] : D \in SUBSET {KeyA, KeyB}}

\* a layer whose id holds a placeholder too
TemplateLayer(item) == [Layer(0, TRUE, item) EXCEPT !.id = <<"{","a","}">>]

\* the scenes that hold template t in one substitutable field
ScenesOf(t) ==
    { Sigil(1, 1, t, <<>>),
      Sigil(1, 1, Black, <<TemplateLayer(TextItem(t, Black, <<"{","a","}">>))>>),
      Sigil(1, 1, Black, <<TemplateLayer(TextItem(<<"x">>, t, <<"{","a","}">>))>>),
      Sigil(1, 1, Black, <<TemplateLayer(ImageItem(t, F(1), F(1)))>>),
      Sigil(1, 1, Black, <<TemplateLayer(RectItem(F(1), F(1), t))>>),
      Sigil(1, 1, Black,
            <<TemplateLayer(SliderItem(F(1), F(1), F(1), F(2), t, Black))>>),
      Sigil(1, 1, Black,
            <<TemplateLayer(SliderItem(F(1), F(1), F(1), F(2), Black, t))>>) }

ResolveScenes == UNION {ScenesOf(t) : t \in Templates}

NextResolve ==
    \E s \in ResolveScenes, v \in VarMaps :
        \E o \in Perms(DOMAIN v) : Resolve(s, v, o)

SpecResolve == Init /\ [][NextResolve]_vars

ResolveCalled == template.width # 0

RECURSIVE Subst(_, _)
\* the string with each placeholder {key} of the map replaced by the
\* key's value, in one pass from left to right
Subst(s, v) ==
    IF s = <<>> THEN <<>>
    ELSE LET ks == {k \in DOMAIN v : StartsWithAt(s, 1, Placeholder(k))}
         IN  IF ks = {} THEN <<Head(s)>> \o Subst(Tail(s), v)
             ELSE LET k == CHOOSE k \in ks : TRUE
                  IN  v[k] \o Subst(SubSeq(s, Len(Placeholder(k)) + 1,
                                           Len(s)), v)

\* the substitutable fields of an item
SubstFields(item) ==
    CASE item.type = "Text"   -> <<item.text, item.color>>
      [] item.type = "Image"  -> <<item.source>>
      [] item.type = "Rect"   -> <<item.color>>
      [] item.type = "Slider" -> <<item.background_color, item.fill_color>>

(***************************************************************************)
(* C10  In the scene resolve returns, each of the seven substitutable      *)
(* fields is the field of the receiver with every placeholder {key} of     *)
(* the map replaced by the key's value.                                    *)
(***************************************************************************)
C10_PlaceholdersReplaced ==
    ResolveCalled =>
        /\ resolved.background = Subst(template.background, variables)
        /\ Len(resolved.layers) = Len(template.layers)
        /\ \A i \in 1..Len(template.layers) :
              LET a == SubstFields(template.layers[i].item)
                  b == SubstFields(resolved.layers[i].item)
              IN  b = [k \in 1..Len(a) |-> Subst(a[k], variables)]

\* the contents of the substitutable fields of a scene of at most one
\* layer, background first
FieldsOf(s) ==
    <<s.background>>
    \o (IF s.layers = <<>> THEN <<>> ELSE SubstFields(s.layers[1].item))

\* the string holds the placeholder of a key of the map
HoldsMapped(str, v) ==
    \E k \in DOMAIN v, i \in 1..Len(str) : StartsWithAt(str, i, Placeholder(k))

(***************************************************************************)
(* C11  Substitution is not recursive: a field that is exactly the         *)
(* placeholder of a mapped key resolves to the key's value verbatim, also  *)
(* when the value holds a placeholder of a mapped key.                     *)
(***************************************************************************)
C11_ValueVerbatim ==
    ResolveCalled =>
        \A n \in 1..Len(FieldsOf(template)) :
            \A k \in DOMAIN variables :
                FieldsOf(template)[n] = Placeholder(k)
                => FieldsOf(resolved)[n] = variables[k]

BraceFree(str) == \A i \in 1..Len(str) : str[i] \notin {"{", "}"}

\* no '{' of the string lies between a '{' and the next '}'
NoNesting(str) ==
    \A i, j \in 1..Len(str) :
        (i < j /\ str[i] = "{" /\ str[j] = "{")
        => \E m \in (i + 1)..(j - 1) : str[m] = "}"

(***************************************************************************)
(* C12 (as stated)  Resolving the resolved scene again with the same map   *)
(* gives the resolved scene.                                               *)
(***************************************************************************)
C12_Idempotent_Original ==
    ResolveCalled => resolve(resolved, variables, var_order) = resolved

(***************************************************************************)
(* C12 (amended)  Resolving the resolved scene again with the same map,    *)
(* in any iteration order, gives the resolved scene, when the resolved     *)
(* scene holds no placeholder of a mapped key in a substitutable field;    *)
(* it holds none when keys and values have no brace and the receiver's     *)
(* fields have no nested '{'.                                              *)
(***************************************************************************)
C12_Idempotent ==
    ResolveCalled =>
        LET plain  == \A k \in DOMAIN variables :
                         BraceFree(k) /\ BraceFree(variables[k])
            flat   == \A n \in 1..Len(FieldsOf(template)) :
                         NoNesting(FieldsOf(template)[n])
            clean  == \A n \in 1..Len(FieldsOf(resolved)) :
                         ~HoldsMapped(FieldsOf(resolved)[n], variables)
        IN  /\ (plain /\ flat) => clean
            /\ clean => \A o \in Perms(DOMAIN variables) :
                           resolve(resolved, variables, o) = resolved

\* a field with two placeholders of one key was resolved with a plain value
C12_Witness ==
    /\ ResolveCalled
    /\ KeyA \in DOMAIN variables
    /\ \A k \in DOMAIN variables : BraceFree(variables[k])
    /\ \E n \in 1..Len(FieldsOf(template)) :
          /\ FieldsOf(template)[n] = Placeholder(KeyA) \o Placeholder(KeyA)
          /\ FieldsOf(resolved)[n] = variables[KeyA] \o variables[KeyA]

\* s occurs in t
IsSubstring(s, t) == \E i \in 1..(Len(t) + 1) : StartsWithAt(t, i, s)

NoKeyInKey(v) ==
    \A j, k \in DOMAIN v : j # k => ~IsSubstring(j, k)

(***************************************************************************)
(* C13  For a map none of whose keys is a substring of another key, the    *)
(* scene resolve returns is the same for every order in which the map      *)
(* iterates.                                                               *)
(***************************************************************************)
C13_OrderIndependent ==
    (ResolveCalled /\ NoKeyInKey(variables)) =>
        \A o \in Perms(DOMAIN variables) :
            resolve(template, variables, o) = resolved

\* the number of places of the string at which pat starts
Count(str, pat) == Cardinality({i \in 1..Len(str) : StartsWithAt(str, i, pat)})

\* the placeholders {c} of single-letter keys c that the map does not hold
Unmapped(v) ==
    {Placeholder(<<c>>) : c \in {"a", "b", "c"}} \ {Placeholder(k) : k \in DOMAIN v}

(***************************************************************************)
(* C14  resolve changes nothing but mapped placeholders in substitutable   *)
(* fields: the result has the receiver's width, height and layers, each    *)
(* layer with the receiver's id, x, y, rotation, visible, item type,       *)
(* numeric fields and font family; a substitutable field that holds no     *)
(* mapped placeholder is unchanged; every placeholder of a key that is     *)
(* not in the map is still there.                                          *)
(***************************************************************************)
C14_ResolveFrame ==
    ResolveCalled =>
        /\ resolved.width = template.width
        /\ resolved.height = template.height
        /\ Len(resolved.layers) = Len(template.layers)
        /\ \A i \in 1..Len(template.layers) :
              LET a == template.layers[i]
                  b == resolved.layers[i]
              IN  /\ [b EXCEPT !.item = a.item] = a
                  /\ DOMAIN b.item = DOMAIN a.item
                  /\ \A f \in (DOMAIN a.item)
                               \ {"text", "color", "source",
                                  "background_color", "fill_color"} :
                        b.item[f] = a.item[f]
        /\ \A n \in 1..Len(FieldsOf(template)) :
              /\ ~HoldsMapped(FieldsOf(template)[n], variables)
                 => FieldsOf(resolved)[n] = FieldsOf(template)[n]
              /\ \A ph \in Unmapped(variables) :
                    Count(FieldsOf(resolved)[n], ph)
                        >= Count(FieldsOf(template)[n], ph)

\* a text was substituted while its id and font family, which hold the
\* same placeholder, and an unmapped placeholder were kept
C14_Witness ==
    /\ ResolveCalled
    /\ DOMAIN variables = {KeyA, KeyB}
    /\ \E i \in 1..Len(template.layers) :
          /\ template.layers[i].item.type = "Text"
          /\ template.layers[i].item.font_family = Placeholder(KeyA)
          /\ template.layers[i].id = Placeholder(KeyA)
          /\ Count(template.layers[i].item.text, Placeholder(<<"c">>)) > 0
          /\ resolved.layers[i].item.text # template.layers[i].item.text

(***************************************************************************)
(* SpecCache: scenes with an image background and image layers whose       *)
(* widths truncate to the same integer, one of them of a source named      *)
(* like a background key, rendered with maps that hold, lack or replace    *)
(* the images.                                                             *)
(***************************************************************************)
NameBgA == <<"b","g","_","a">>

RedImage == ImageBlob(<<255, 0, 0, 255>>)

CacheLayerSet ==
    {Layer(0, TRUE, ImageItem(NameA, F(1), F(1))),
     Layer(0, TRUE, ImageItem(NameA, 3, F(1))),
     Layer(0, TRUE, ImageItem(NameBgA, F(1), F(1)))}

CacheScenes ==
    {Sigil(1, 1, bg, ls) : bg \in {Green, NameA},
                           ls \in SeqsUpTo(CacheLayerSet, MaxLayers)}

CacheMaps ==
    {<<>>,
     (NameA :> OpaqueImage) @@ (NameBgA :> RedImage) @@ (Green :> OpaqueImage),
     NameA :> RedImage}

NextCache == Render(CacheScenes, CacheMaps)

SpecCache == Init /\ [][NextCache]_vars

(***************************************************************************)
(* C15  Background selection.  The buffer a successful call returns for a  *)
(* scene without layers is the background colour when the background is    *)
(* '#' and six hexadecimal digits (also when a resource has that name),    *)
(* else the image the call's resource map holds under that name, resized   *)
(* to the canvas, when there is one that decodes, else opaque black.       *)
(***************************************************************************)
C15_BackgroundSelection ==
    (result.ok /\ sigil.layers = <<>>) =>
        result.data =
            IF IsRRGGBB(sigil.background)
            THEN PixmapUniform(sigil.width, sigil.height,
                               parse_color(sigil.background)).data
            ELSE IF /\ sigil.background \in DOMAIN resources
                    /\ Decodable(resources[sigil.background])
            THEN DecodeResize(resources[sigil.background],
                              sigil.width, sigil.height).data
            ELSE PixmapUniform(sigil.width, sigil.height, <<0, 0, 0, 255>>).data

(***************************************************************************)
(* SpecSlider: one slider at the left edge of a black canvas, for values   *)
(* below, inside and above its range and maxima below and above 1.         *)
(***************************************************************************)
Blue == <<"#","0","0","0","0","f","f">>

SliderScenes ==
    {Sigil(w, 1, Black,
           <<Layer(0, TRUE, SliderItem(wd, F(1), v, mx, Green, Blue))>>) :
        w \in 1..MaxW, wd \in {F(1), F(2)},
        v \in {-F(1), 0, F(1), F(3), PosInf}, mx \in {0, 1, F(2)}}

NextSlider == Render(SliderScenes, {<<>>})

SpecSlider == Init /\ [][NextSlider]_vars

\* the colour claimed for pixel column px of a scene whose only layer is a
\* slider at x = 0 with fill width num/den halves: the fill colour where
\* the fill covers the column, else the slider's background where the
\* slider covers it, else the scene's; NoColor for a column cut by an edge
SliderColumn(s, px, num, den) ==
    LET it == s.layers[1].item
    IN  IF num > 0 /\ (2 * px + 2) * den <= num
        THEN parse_color(it.fill_color)
        ELSE IF num > 0 /\ 2 * px * den < num THEN NoColor
        ELSE IF 2 * px + 2 <= it.width
        THEN parse_color(it.background_color)
        ELSE IF 2 * px < it.width THEN NoColor
        ELSE parse_color(s.background)

OneSlider(s) ==
    /\ Len(s.layers) = 1
    /\ s.layers[1].item.type = "Slider"
    /\ s.layers[1].x = 0
    /\ WellFormedScene(s)
    /\ IsRRGGBB(s.background)
    /\ IsFinite(s.layers[1].item.max_value)

\* every column has the colour claimed for fill width num/den
SliderPainted(num, den) ==
    /\ result.ok
    /\ \A px \in 0..(sigil.width - 1) :
          LET c == SliderColumn(sigil, px, num, den)
          IN  c # NoColor => result.data[px + 1] = c

C17_BufferCleared ==
    [][result'.ok =>
          result' = render_raw([renderer EXCEPT !.pixmap_buffer = NoPixmap],
                               sigil', resources', font_order').result]_vars

(***************************************************************************)
(* SpecBuffer: canvases of several widths and heights, width 0 included,   *)
(* with two background colours, without layers or with one rectangle,     *)
(* whose colour is accepted or rejected, so that calls succeed and fail    *)
(* in turn.                                                                *)
(***************************************************************************)
MaxH == 2

BufferScenes ==
    {Sigil(w, h, bg, ls) :
        w \in 0..MaxW, h \in 1..MaxH, bg \in {Black, Green},
        ls \in {<<>>, <<Layer(0, TRUE, RectItem(F(1), F(1), Red))>>,
                <<Layer(0, TRUE, RectItem(F(1), F(1), PlusRed))>>}}

BufferMaps == {<<>>}

NextBuffer == Render(BufferScenes, BufferMaps)

SpecBuffer == Init /\ [][NextBuffer]_vars

\* the renderer holds no buffer of the width and height of scene s
NoBufferFor(R, s) ==
    \/ ~R.pixmap_buffer.some
    \/ R.pixmap_buffer.w # s.width
    \/ R.pixmap_buffer.h # s.height

(***************************************************************************)
(* C18  Buffer reuse.  A call makes a new buffer exactly when the renderer *)
(* holds none or holds one whose width or height differs from the scene's; *)
(* a call that makes none keeps painting into the buffer it held, of the   *)
(* same width and height; and after a successful call the renderer holds   *)
(* a buffer of the scene's width and height.                               *)
(***************************************************************************)
C18_BufferReuse ==
    [][/\ allocated' <=> NoBufferFor(renderer, sigil')
       /\ ~allocated' =>
              /\ renderer'.pixmap_buffer.some
              /\ renderer'.pixmap_buffer.w = renderer.pixmap_buffer.w
              /\ renderer'.pixmap_buffer.h = renderer.pixmap_buffer.h
       /\ result'.ok =>
              /\ renderer'.pixmap_buffer.some
              /\ renderer'.pixmap_buffer.w = sigil'.width
              /\ renderer'.pixmap_buffer.h = sigil'.height]_vars

\* a call on a canvas of the largest size has just reused the buffer
C18_Witness ==
    /\ Called
    /\ ~allocated
    /\ result.ok
    /\ sigil.width = MaxW
    /\ sigil.height = MaxH

\* events d and e are about the same image at the same integer size
SameImage(d, e) == d.source = e.source /\ d.w = e.w /\ d.h = e.h

(***************************************************************************)
(* C19  Decoded once.  When a call decodes and resizes the blob of an      *)
(* image layer, no earlier call and no earlier layer of the same call has  *)
(* decoded, or was served from the cache, the same source at the same      *)
(* integer width and height.                                               *)
(***************************************************************************)
C19_DecodedOnce ==
    [][\A i \in 1..Len(cache_log') :
          (cache_log'[i].kind = "image" /\ ~cache_log'[i].hit) =>
              /\ \A d \in stored :
                    d.kind = "image" => ~SameImage(d, cache_log'[i])
              /\ \A j \in 1..(i - 1) :
                    cache_log'[j].kind = "image"
                        => ~SameImage(cache_log'[j], cache_log'[i])]_vars

(***************************************************************************)
(* C20  No aliasing.  An entry the cache returns to the background step    *)
(* was stored by a background step, and an entry it returns to an image    *)
(* layer was stored by an image layer.                                     *)
(***************************************************************************)
C20_NoAlias ==
    \A i \in 1..Len(cache_log) :
        cache_log[i].hit =>
            \A d \in stored :
                d.key = cache_log[i].key => d.kind = cache_log[i].kind

(***************************************************************************)
(* SpecColor: parse_color called on strings of five to eight characters,   *)
(* with and without the leading '#', over digits of both cases, a letter   *)
(* that is no digit, the sign '+' and a two-byte character.                *)
(***************************************************************************)
ColorAlphabet == {"0", "a", "F", "g", "+", EAcute}

ColorInputs ==
    {<<p, a, b, "0", c, "1", "f">> :
        p \in {"#", "0"}, a \in ColorAlphabet, b \in ColorAlphabet,
        c \in ColorAlphabet}
    \cup {<<"#", a, b, c, "0", "0">> :
            a \in ColorAlphabet, b \in ColorAlphabet, c \in ColorAlphabet}
    \cup {<<>>, <<"#">>, <<"#", "0", "0", "0", "0", "0", "0", "0">>}

\* one call parse_color(h)
ParseColor(h) ==
    /\ hex' = h
    /\ color' = parse_color(h)
    /\ UNCHANGED <<render_vars, zero_area_rect, resolve_vars,
                 editor_vars>>

NextColor == \E h \in ColorInputs : ParseColor(h)

SpecColor == Init /\ [][NextColor]_vars

\* the byte the two hexadecimal digits s[k], s[k + 1] denote
HexPair(s, k) == 16 * HexVal(s[k]) + HexVal(s[k + 1])

(***************************************************************************)
(* C21  parse_color.  The call returns a colour exactly when its argument  *)
(* is '#' followed by six hexadecimal digits, the colour of the three      *)
(* digit pairs with alpha 255; for every other string it returns 'not a    *)
(* colour', and it never panics.                                           *)
(***************************************************************************)
C21_ParseColor ==
    color = IF IsRRGGBB(hex)
            THEN <<HexPair(hex, 2), HexPair(hex, 4), HexPair(hex, 6), 255>>
            ELSE NoColor

(***************************************************************************)
(* SpecFamily: one line of text on a black 1 x 1 canvas, its font_family   *)
(* a list of generic keywords, unknown names and spellings of "fb";        *)
(* the maps hold up to two font files whose families, "Fb" and "F b",      *)
(* both match "fb" and whose glyphs differ in coverage.                    *)
(***************************************************************************)
FamilySpaced == <<"F", " ", "b">>

FamilyLists ==
    {<<"f","b">>,
     <<"z","z",","," ","F"," ","B">>,
     <<"s","e","r","i","f",",","f","b">>,
     <<"f","b",",","s","e","r","i","f">>,
     <<"z","z">>,
     <<"M","o","n","o">>}

FamilyScenes ==
    {Sigil(1, 1, Black, <<Layer(0, TRUE, TextItem(<<"x">>, Red, ff))>>) :
        ff \in FamilyLists}

FamilyFiles ==
    (FontF :> FontBlob(FamilyB, 64)) @@ (FontG :> FontBlob(FamilySpaced, 128))

FamilyMaps == {[k \in D |-> FamilyFiles[k]] : D \in SUBSET DOMAIN FamilyFiles}

NextFamily == Render(FamilyScenes, FamilyMaps)

SpecFamily == Init /\ [][NextFamily]_vars

\* the family of the first face of the list that matches the token
FirstFoundName(faces, f) ==
    LET hits == {i \in 1..Len(faces) : FaceMatches(faces[i], f)}
    IN  IF hits = {} THEN Unresolved
        ELSE FamilyName(faces[CHOOSE i \in hits : \A j \in hits : i <= j].family)

RECURSIVE FirstMatchResolved(_, _)
\* the family the first resolving token decides, a face name being decided
\* by the first matching face
FirstMatchResolved(faces, tokens) ==
    IF tokens = <<>> THEN SansSerif
    ELSE LET t == IF TokenFamily(faces, Head(tokens)).kind \in {"Name", "None"}
                  THEN FirstFoundName(faces, Head(tokens))
                  ELSE TokenFamily(faces, Head(tokens))
         IN  IF t # Unresolved THEN t
             ELSE FirstMatchResolved(faces, Tail(tokens))

\* the scene is one Text layer
OneText(s) == Len(s.layers) = 1 /\ s.layers[1].item.type = "Text"

(***************************************************************************)
(* C22  Font family resolution.  The text of a Text layer is drawn with    *)
(* the face of the family decided by the first token of font_family that   *)
(* is a generic keyword or matches a loaded face, the first matching face  *)
(* of the face list giving the name; sans-serif when no token resolves.    *)
(***************************************************************************)
C22_FirstMatchWins ==
    (Called /\ result.ok /\ OneText(sigil)) =>
        LET fs   == renderer.font_system
            it   == sigil.layers[1].item
            toks == SplitComma(it.font_family)
            fam  == FirstMatchResolved(fs.faces,
                        [i \in 1..Len(toks) |-> Trim(toks[i])])
            face == FaceFor(fs, fam)
        IN  result.data =
                DrawGlyphs(PixmapFill(PixmapNew(sigil.width, sigil.height),
                                      parse_color(sigil.background)),
                           sigil.layers[1], it.text, 1,
                           GlyphPixel(parse_color(it.color),
                                      fs.faces[face].ink)).data

\* the font files of map r, in iteration order o, that the renderer R has
\* not ingested yet
NewFonts(R, r, o) ==
    SelectSeq(o, LAMBDA n : IsFontName(n) /\ n \notin R.loaded_fonts)

\* the faces the call loads from the map, in load order
RECURSIVE LoadedFaces(_, _)
LoadedFaces(r, names) ==
    IF names = <<>> THEN <<>>
    ELSE FacesOf(r[Head(names)]) \o LoadedFaces(r, Tail(names))

(***************************************************************************)
(* C23  Generic families.  The first call that ingests font files sets     *)
(* the five generic families to the family of the first face it loads      *)
(* from the resource map; every other call, one that ingests further       *)
(* fonts included, leaves the generic families as they were.               *)
(***************************************************************************)
C23_GenericsSetOnce ==
    [][LET new   == NewFonts(renderer, resources', font_order')
           faces == LoadedFaces(resources', new)
       IN  IF renderer.loaded_fonts = {} /\ faces # <<>>
           THEN renderer'.font_system.generic = AllGeneric(faces[1].family)
           ELSE renderer'.font_system.generic
                    = renderer.font_system.generic]_vars

(***************************************************************************)
(* SpecIngest: calls that succeed, fail on a layer or fail on the canvas,  *)
(* with maps that hold font files under font names and under a name        *)
(* without font suffix, and a .woff2 file the database cannot read.        *)
(***************************************************************************)
FontW == <<"w",".","w","o","f","f","2">>

IngestScenes ==
    {Sigil(w, 1, Black, ls) :
        w \in 0..1,
        ls \in {<<>>,
                <<Layer(0, TRUE, RectItem(F(1), F(1), PlusRed))>>,
                <<Layer(0, TRUE, TextItem(<<"x">>, Red, FamilyB))>>}}

IngestMaps ==
    {<<>>,
     FontF :> FontBlob(FamilyB, 64),
     FontG :> FontBlob(FamilySpaced, 128),
     (FontF :> FontBlob(FamilyB, 64)) @@ (FontG :> FontBlob(FamilySpaced, 128)),
     (FontF :> FontBlob(FamilyB, 64)) @@ (NameB :> FontBlob(FamilySpaced, 128)),
     (FontW :> JunkBlob) @@ (NameB :> FontBlob(FamilyB, 64))}

NextIngest == Render(IngestScenes, IngestMaps)

SpecIngest == Init /\ [][NextIngest]_vars

(***************************************************************************)
(* C24  Font ingestion.  A call adds to loaded_fonts exactly the names of  *)
(* its map that end in .ttf, .otf or .woff2, and it loads into the font    *)
(* database the blobs of those of them that no earlier call had ingested,  *)
(* once each and nothing else; this holds whether the calls succeed or     *)
(* fail.                                                                   *)
(***************************************************************************)
C24_IngestedOnce ==
    [][LET new == SelectSeq(font_order',
                      LAMBDA n : HasFontSuffix(n)
                                 /\ n \notin renderer.loaded_fonts)
       IN  /\ renderer'.loaded_fonts =
                 renderer.loaded_fonts
                    \cup {n \in DOMAIN resources' : HasFontSuffix(n)}
           /\ renderer'.font_system.faces =
                 renderer.font_system.faces \o LoadedFaces(resources', new)]_vars

\* a failed call whose map held a font file ingested before, after both
\* font files were ingested
C24_Witness ==
    /\ Called
    /\ ~result.ok
    /\ DOMAIN resources = {FontF, NameB}
    /\ renderer.loaded_fonts = {FontF, FontG}
    /\ Len(renderer.font_system.faces) = 3

(***************************************************************************)
(* SpecAbort: scenes of up to MaxLayers layers, each an image, or a        *)
(* rectangle or slider with a colour or a size the specification rejects,  *)
(* so that invalid layers follow valid and invalid ones.                   *)
(***************************************************************************)
AbortLayerSet ==
    {Layer(0, TRUE, ImageItem(NameA, F(1), F(1))),
     Layer(0, TRUE, RectItem(F(1), F(1), PlusRed)),
     Layer(0, TRUE, RectItem(F(1), F(1), Short)),
     Layer(0, TRUE, RectItem(-F(1), F(1), Red)),
     Layer(0, TRUE, SliderItem(F(1), -F(1), F(1), F(2), Black, Short))}

AbortScenes ==
    {Sigil(1, 1, Black, ls) : ls \in SeqsUpTo(AbortLayerSet, MaxLayers)}

AbortMaps == {<<>>, NameA :> OpaqueImage}

NextAbort == Render(AbortScenes, AbortMaps)

SpecAbort == Init /\ [][NextAbort]_vars

\* the error the specification gives an invalid layer: its first colour
\* that is no #rrggbb, else its size
LayerError(layer) ==
    IF ~ColorsWellFormed(layer.item)
    THEN InvalidColorFormat(FirstBadColor(layer.item))
    ELSE InvalidDimensions(layer.item.type)

\* the index of the first layer of s that is not well formed
FirstInvalid(s) ==
    CHOOSE k \in 1..Len(s.layers) :
        /\ ~WellFormedLayer(s.layers[k])
        /\ \A m \in 1..(k - 1) : WellFormedLayer(s.layers[m])

(***************************************************************************)
(* C25  First invalid layer.  When several layers of the scene are         *)
(* invalid, the call returns the error of the one of lowest index, the     *)
(* renderer is                                                             *)
(* left with the buffer and the image cache that painting the layers       *)
(* before it gives, and the call has looked up and decoded nothing for     *)
(* the layers after it.                                                    *)
(***************************************************************************)
C25_FirstInvalidAborts ==
    [][Cardinality({i \in 1..Len(sigil'.layers) :
                        ~WellFormedLayer(sigil'.layers[i])}) >= 2
       => LET k   == FirstInvalid(sigil')
              pre == render_raw(renderer,
                         [sigil' EXCEPT !.layers = SubSeq(@, 1, k - 1)],
                         resources', font_order')
          IN  /\ result' = Err(LayerError(sigil'.layers[k]))
              /\ renderer'.pixmap_buffer = pre.renderer.pixmap_buffer
              /\ renderer'.image_cache = pre.renderer.image_cache
              /\ cache_log' = pre.log]_vars

(***************************************************************************)
(* SpecCanvas: canvases of width and height 0 and more, with valid scenes  *)
(* (none, a slider, a text) and scenes that fail on a layer.  Only calls   *)
(* on an empty canvas carry the font file, so that a renderer that has     *)
(* ingested it has had a call fail on the canvas.                          *)
(***************************************************************************)
CanvasLayers ==
    {<<>>,
     <<Layer(0, TRUE, SliderItem(F(1), F(1), F(1), F(2), Black, Red))>>,
     <<Layer(0, TRUE, TextItem(<<"x">>, Red, FamilyB))>>,
     <<Layer(0, TRUE, RectItem(F(1), F(1), Short))>>,
     <<Layer(0, TRUE, SliderItem(F(1), F(1), PosInf, F(2), Black, Red))>>}

CanvasScenes ==
    {Sigil(w, h, Black, ls) : w \in 0..MaxW, h \in 0..MaxH, ls \in CanvasLayers}

EmptyCanvasScenes == {s \in CanvasScenes : s.width = 0 \/ s.height = 0}

NextCanvas ==
    \/ Render(CanvasScenes, {<<>>})
    \/ Render(EmptyCanvasScenes, {FontF :> FontBlob(FamilyB, 64)})

SpecCanvas == Init /\ [][NextCanvas]_vars

\* a scene the renderer has to accept on a canvas it can create
ValidScene(s) == WellFormedScene(s) /\ NoFillInfinite(s)

White == <<"#","f","f","f","f","f","f">>

PremulPixels ==
    {<<200, 100, 50, 128>>}

PremulImage == Layer(1, TRUE, ImageItem(NameA, F(1), F(1)))

PremulText == Layer(0, TRUE, TextItem(<<"x">>, White, FamilyB))

PremulLayers ==
    {<<>>, <<PremulImage>>, <<PremulText>>, <<PremulImage, PremulText>>,
     <<PremulText, PremulImage>>}

PremulScenes ==
    {Sigil(w, 1, NameA, ls) : w \in 1..MaxW, ls \in PremulLayers}

PremulMaps ==
    {<<>>} \cup {(NameA :> ImageBlob(px)) @@ (FontG :> FontBlob(FamilyB, 64)) :
                    px \in PremulPixels}

\* calls that change the size of the canvas, so that each paints into a
\* new, transparent buffer
NextPremul ==
    \E s \in PremulScenes, r \in PremulMaps :
        /\ NoBufferFor(renderer, s)
        /\ \E o \in Perms(FontNames(r)) : RenderRaw(s, r, o)

SpecPremul == Init /\ [][NextPremul]_vars

\* no colour channel of a pixel of the sequence exceeds the pixel's alpha
ChannelsWithinAlpha(data) ==
    \A p \in 1..Len(data) : \A c \in 1..3 : data[p][c] <= data[p][4]

MaxEditorLayers == 3

\* the largest value layer_id_counter grows to
MaxIdCounter == 3

\* the bounds as a condition on the step of a handler that adds layers
EditorBounded ==
    /\ Len(editor_sigil'.layers) <= MaxEditorLayers
    /\ layer_id_counter' <= MaxIdCounter

EditorLen == Len(editor_sigil.layers)

\* the indices for which the layer list renders an element
EditorIndices == 0..(EditorLen - 1)

\* Vec::remove, Vec::insert and slice::swap at in-range indices
VecRemove(v, idx) == SubSeq(v, 1, idx) \o SubSeq(v, idx + 2, Len(v))

VecInsert(v, idx, item) ==
    SubSeq(v, 1, idx) \o <<item>> \o SubSeq(v, idx + 1, Len(v))

VecSwap(v, i, j) == [v EXCEPT ![i + 1] = v[j + 1], ![j + 1] = v[i + 1]]

\* to_remove.sort_by(|a, b| b.cmp(a)) followed by layers.remove(idx) for
\* each element: every selected index is removed, the largest first
RECURSIVE RemoveDescending(_, _)
RemoveDescending(v, S) ==
    IF S = {} THEN v
    ELSE LET top == CHOOSE i \in S : \A j \in S : j <= i
         IN  RemoveDescending(VecRemove(v, top), S \ {top})

other_vars == <<render_vars, zero_area_rect, resolve_vars, color_vars>>

\* a handler panicked: nothing runs afterwards
EditorPanic ==
    /\ panicked' = TRUE
    /\ UNCHANGED <<editor_sigil, dragging, dragging_layer_index,
                   drag_over_state, selected_layers, locked_layers,
                   clipboard, layer_id_counter, other_vars>>

\* onkeydown, Ctrl+A
SelectAll ==
    /\ ~panicked
    /\ selected_layers' = EditorIndices
    /\ UNCHANGED <<editor_sigil, dragging, dragging_layer_index,
                   drag_over_state, locked_layers, clipboard,
                   layer_id_counter, panicked, other_vars>>

\* onkeydown, Ctrl+C: the selected layers that exist, in the order the
\* HashSet yields them; an empty copy leaves the clipboard alone.  A copy
\* is a layer the user has not locked.
CopyLayers ==
    /\ ~panicked
    /\ \E order \in Perms(selected_layers \cap EditorIndices) :
          clipboard' = IF order = <<>> THEN clipboard
                       ELSE [k \in 1..Len(order) |->
                                [editor_sigil.layers[order[k] + 1]
                                    EXCEPT !.locked_by_user = FALSE]]
    /\ UNCHANGED <<editor_sigil, dragging, dragging_layer_index,
                   drag_over_state, selected_layers, locked_layers,
                   layer_id_counter, panicked, other_vars>>

\* the copy of clipboard layer k that Ctrl+V pushes: its id gets the
\* suffix "_{current_id}" where current_id was incremented k times
PastedLayer(k) ==
    [clipboard[k] EXCEPT !.id = Append(@, layer_id_counter + k)]

\* onkeydown, Ctrl+V
PasteLayers ==
    /\ ~panicked
    /\ IF clipboard = <<>>
       THEN UNCHANGED <<editor_sigil, selected_layers, layer_id_counter>>
       ELSE /\ editor_sigil' =
                 [editor_sigil EXCEPT !.layers =
                     @ \o [k \in 1..Len(clipboard) |-> PastedLayer(k)]]
            /\ selected_layers' =
                 {EditorLen + k - 1 : k \in 1..Len(clipboard)}
            /\ layer_id_counter' = layer_id_counter + Len(clipboard)
    /\ UNCHANGED <<dragging, dragging_layer_index, drag_over_state,
                   locked_layers, clipboard, panicked, other_vars>>

\* a delete handler that forgets selected_layers.write().clear()
DeleteLayers_KeepSelection ==
    /\ ~panicked
    /\ selected_layers # {}
    /\ IF \E idx \in selected_layers : idx >= EditorLen
       THEN EditorPanic
       ELSE /\ editor_sigil' =
                 [editor_sigil EXCEPT !.layers =
                     RemoveDescending(@, selected_layers)]
            /\ UNCHANGED <<selected_layers, dragging, dragging_layer_index,
                           drag_over_state, locked_layers, clipboard,
                           layer_id_counter, panicked, other_vars>>

\* onkeydown, Delete, and the "Del" button: the same code
DeleteLayers ==
    /\ ~panicked
    /\ selected_layers # {}
    /\ IF \E idx \in selected_layers : idx >= EditorLen
       THEN EditorPanic
       ELSE /\ editor_sigil' =
                 [editor_sigil EXCEPT !.layers =
                     RemoveDescending(@, selected_layers)]
            /\ selected_layers' = {}
            /\ UNCHANGED <<dragging, dragging_layer_index, drag_over_state,
                           locked_layers, clipboard, layer_id_counter,
                           panicked, other_vars>>

\* the id prefix the "Add" button uses for each value of add_layer_type
AddPrefix(type) ==
    CASE type = "Rectangle" -> "rect"
      [] type = "Text"      -> "text"
      [] OTHER              -> "img"

\* the "Add" button with add_layer_type = type
AddLayer(type) ==
    /\ ~panicked
    /\ editor_sigil' =
          [editor_sigil EXCEPT !.layers =
              Append(@, EditorLayer(<<AddPrefix(type), layer_id_counter>>))]
    /\ layer_id_counter' = layer_id_counter + 1
    /\ selected_layers' = {EditorLen}
    /\ UNCHANGED <<dragging, dragging_layer_index, drag_over_state,
                   locked_layers, clipboard, panicked, other_vars>>

\* the "Up" button, enabled while exactly one layer is selected
MoveUp ==
    /\ ~panicked
    /\ Cardinality(selected_layers) = 1
    /\ \E idx \in selected_layers :
          IF EditorLen = 0 THEN EditorPanic
          ELSE /\ IF idx < EditorLen - 1
                  THEN /\ editor_sigil' =
                            [editor_sigil EXCEPT !.layers =
                                VecSwap(@, idx, idx + 1)]
                       /\ selected_layers' = {idx + 1}
                  ELSE UNCHANGED <<editor_sigil, selected_layers>>
               /\ UNCHANGED <<dragging, dragging_layer_index,
                              drag_over_state, locked_layers, clipboard,
                              layer_id_counter, panicked, other_vars>>

\* the "Down" button, enabled while exactly one layer is selected
MoveDown ==
    /\ ~panicked
    /\ Cardinality(selected_layers) = 1
    /\ \E idx \in selected_layers :
          IF idx > 0 /\ idx >= EditorLen THEN EditorPanic
          ELSE /\ IF idx > 0
                  THEN /\ editor_sigil' =
                            [editor_sigil EXCEPT !.layers =
                                VecSwap(@, idx, idx - 1)]
                       /\ selected_layers' = {idx - 1}
                  ELSE UNCHANGED <<editor_sigil, selected_layers>>
               /\ UNCHANGED <<dragging, dragging_layer_index,
                              drag_over_state, locked_layers, clipboard,
                              layer_id_counter, panicked, other_vars>>

\* ondragstart of the list item of layer idx
DragStart(idx) ==
    /\ ~panicked
    /\ idx \in EditorIndices
    /\ dragging_layer_index' = Some(idx)
    /\ UNCHANGED <<editor_sigil, dragging, drag_over_state, selected_layers,
                   locked_layers, clipboard, layer_id_counter, panicked,
                   other_vars>>

\* ondragover of the list item of layer idx, the pointer in its upper
\* part (is_top) or not.  Of the pair (idx, is_top) the handlers read
\* is_top only, and only is_top is kept.
DragOver(idx, is_top) ==
    /\ ~panicked
    /\ idx \in EditorIndices
    /\ drag_over_state' = Some(is_top)
    /\ UNCHANGED <<editor_sigil, dragging, dragging_layer_index,
                   selected_layers, locked_layers, clipboard,
                   layer_id_counter, panicked, other_vars>>

\* onmouseleave of the layer list
ListMouseLeave ==
    /\ ~panicked
    /\ drag_over_state' = None
    /\ UNCHANGED <<editor_sigil, dragging, dragging_layer_index,
                   selected_layers, locked_layers, clipboard,
                   layer_id_counter, panicked, other_vars>>

\* where ondrop on item idx re-inserts the layer taken from from_idx
DropTarget(from_idx, idx) ==
    LET is_top == IF drag_over_state = None THEN TRUE
                  ELSE drag_over_state[1]
        t1 == IF from_idx < idx THEN idx - 1 ELSE idx
    IN  IF is_top THEN t1 ELSE t1 + 1

\* ondrop of the list item of layer idx
Drop(idx) ==
    /\ ~panicked
    /\ idx \in EditorIndices
    /\ IF /\ dragging_layer_index # None
          /\ dragging_layer_index[1] # idx
          /\ dragging_layer_index[1] < EditorLen
       THEN LET from_idx == dragging_layer_index[1]
                item     == editor_sigil.layers[from_idx + 1]
                rest     == VecRemove(editor_sigil.layers, from_idx)
                target   == DropTarget(from_idx, idx)
            IN  IF target <= Len(rest)
                THEN /\ editor_sigil' =
                          [editor_sigil EXCEPT !.layers =
                              VecInsert(rest, target, item)]
                     /\ selected_layers' = {target}
                ELSE /\ editor_sigil' = [editor_sigil EXCEPT !.layers = rest]
                     /\ UNCHANGED selected_layers
       ELSE UNCHANGED <<editor_sigil, selected_layers>>
    /\ dragging_layer_index' = None
    /\ drag_over_state' = None
    /\ UNCHANGED <<dragging, locked_layers, clipboard, layer_id_counter,
                   panicked, other_vars>>

\* onclick of the list item of layer idx, with Ctrl, Meta or Shift held
\* (modifier) or not
LayerClick(idx, modifier) ==
    /\ ~panicked
    /\ idx \in EditorIndices
    /\ selected_layers' =
          IF modifier
          THEN IF idx \in selected_layers THEN selected_layers \ {idx}
               ELSE selected_layers \cup {idx}
          ELSE {idx}
    /\ UNCHANGED <<editor_sigil, dragging, dragging_layer_index,
                   drag_over_state, locked_layers, clipboard,
                   layer_id_counter, panicked, other_vars>>

\* onclick of the lock button of layer idx
ToggleLock(idx) ==
    /\ ~panicked
    /\ idx \in EditorIndices
    /\ locked_layers' = IF idx \in locked_layers THEN locked_layers \ {idx}
                        ELSE locked_layers \cup {idx}
    /\ editor_sigil' =
          [editor_sigil EXCEPT !.layers[idx + 1].locked_by_user =
              idx \notin locked_layers]
    /\ UNCHANGED <<dragging, dragging_layer_index, drag_over_state,
                   selected_layers, clipboard, layer_id_counter, panicked,
                   other_vars>>

\* onclick of the canvas panel
CanvasClick ==
    /\ ~panicked
    /\ selected_layers' = {}
    /\ UNCHANGED <<editor_sigil, dragging, dragging_layer_index,
                   drag_over_state, locked_layers, clipboard,
                   layer_id_counter, panicked, other_vars>>

\* on_move_start of the canvas element of layer idx.  Of the drag it
\* starts only the mode is kept.
MoveStart(idx, modifier) ==
    /\ ~panicked
    /\ idx \in EditorIndices
    /\ IF idx \in locked_layers
       THEN UNCHANGED <<selected_layers, dragging>>
       ELSE /\ selected_layers' =
                 IF idx \in selected_layers THEN selected_layers
                 ELSE IF modifier THEN selected_layers \cup {idx}
                 ELSE {idx}
            /\ dragging' =
                 IF \E sel_idx \in selected_layers' :
                       sel_idx < EditorLen /\ sel_idx \notin locked_layers
                 THEN Some("Move") ELSE dragging
    /\ UNCHANGED <<editor_sigil, dragging_layer_index, drag_over_state,
                   locked_layers, clipboard, layer_id_counter, panicked,
                   other_vars>>

\* onmouseup of the canvas panel
MouseUp ==
    /\ ~panicked
    /\ dragging' = None
    /\ UNCHANGED <<editor_sigil, dragging_layer_index, drag_over_state,
                   selected_layers, locked_layers, clipboard,
                   layer_id_counter, panicked, other_vars>>

\* the "Load" button of the JSON dialog with a text that parses to a scene
\* with the layers new_layers
LoadJson(new_layers) ==
    /\ ~panicked
    /\ editor_sigil' = [layers |-> new_layers]
    /\ selected_layers' = {}
    /\ layer_id_counter' = Len(new_layers)
    /\ UNCHANGED <<dragging, dragging_layer_index, drag_over_state,
                   locked_layers, clipboard, panicked, other_vars>>

\* the kinds the add_layer_type select offers
AddTypes == {"Rectangle", "Text", "Image"}

\* the events named by the selection claim, with one kind of new layer and
\* one loaded scene; the scene has MaxIdCounter layers, so that no id is
\* made after a load
SelectionLoads == {[k \in 1..MaxIdCounter |-> EditorLayer(<<"a", k>>)]}

NextSelection ==
    \/ SelectAll
    \/ CopyLayers
    \/ PasteLayers /\ EditorBounded
    \/ DeleteLayers
    \/ AddLayer("Rectangle") /\ EditorBounded
    \/ MoveUp
    \/ MoveDown
    \/ \E idx \in 0..(MaxEditorLayers - 1) : DragStart(idx)
    \/ \E idx \in 0..(MaxEditorLayers - 1), is_top \in BOOLEAN :
          DragOver(idx, is_top)
    \/ ListMouseLeave
    \/ \E idx \in 0..(MaxEditorLayers - 1) : Drop(idx)
    \/ \E idx \in 0..(MaxEditorLayers - 1), modifier \in BOOLEAN :
          LayerClick(idx, modifier)
    \/ CanvasClick
    \/ \E idx \in 0..(MaxEditorLayers - 1), modifier \in BOOLEAN :
          MoveStart(idx, modifier)
    \/ MouseUp
    \/ \E new_layers \in SelectionLoads : LoadJson(new_layers)

SpecSelection == Init /\ [][NextSelection]_vars

IdsBounded ==
    /\ Len(editor_sigil'.layers) <= MaxEditorLayers
    /\ layer_id_counter' <= MaxIdCounter + 1

\* Add-layer, Copy, Paste and Delete, and the two ways of choosing the
\* layers that Copy and Delete act on
NextIds ==
    \/ \E type \in AddTypes : AddLayer(type) /\ IdsBounded
    \/ CopyLayers
    \/ PasteLayers /\ IdsBounded
    \/ DeleteLayers
    \/ SelectAll
    \/ \E idx \in 0..(MaxEditorLayers - 1), modifier \in BOOLEAN :
          LayerClick(idx, modifier)

SpecIds == Init /\ [][NextIds]_vars

(***************************************************************************)
(* C29: starting from the initial scene (layers "bg" and "text", id        *)
(* counter 2), after any sequence of Add-layer, Copy, Paste and Delete     *)
(* operations the ids of the layers of the scene are pairwise distinct.    *)
(***************************************************************************)
C29_IdsDistinct ==
    \A i, j \in 1..EditorLen :
        i # j => editor_sigil.layers[i].id # editor_sigil.layers[j].id

\* the lock button, the events after which the lock claim looks at the
\* locks, and the events that choose the selection or show a lock at work
NextLocks ==
    \/ \E idx \in 0..(MaxEditorLayers - 1) : ToggleLock(idx)
    \/ DeleteLayers
    \/ MoveUp
    \/ MoveDown
    \/ \E idx \in 0..(MaxEditorLayers - 1) : DragStart(idx)
    \/ \E idx \in 0..(MaxEditorLayers - 1) : Drop(idx)
    \/ CopyLayers
    \/ PasteLayers /\ EditorBounded
    \/ \E new_layers \in SelectionLoads : LoadJson(new_layers)
    \/ \E idx \in 0..(MaxEditorLayers - 1) : LayerClick(idx, FALSE)
    \/ \E idx \in 0..(MaxEditorLayers - 1) : MoveStart(idx, FALSE)

SpecLocks == Init /\ [][NextLocks]_vars

\* layer idx cannot start a move drag (line 1010) and shows no selection
\* overlay (line 1001, is_locked)
TreatedAsLocked(idx) == idx \in locked_layers

(***************************************************************************)
(* C30: the lock state follows the layer, not the list position: after     *)
(* delete, move up or down, drag-and-drop reorder, paste and load JSON a   *)
(* layer is treated as locked exactly when the user locked that same       *)
(* layer and has not unlocked it since.                                    *)
(***************************************************************************)
C30_LockFollowsLayer ==
    \A idx \in EditorIndices :
        TreatedAsLocked(idx) <=> editor_sigil.layers[idx + 1].locked_by_user
=============================================================================
